---- MODULE Spec2Model ----
(***************************************************************************)
(* Model of the tracing engine of BifRust:                                 *)
(*   - FieldLineSet3::trace, the parallel fan-out of a seeder over the     *)
(*     tracer and the reduction of the per-trajectory data into            *)
(*     FieldLineSetProperties3 (src/tracing/field_line.rs);                *)
(*   - RKF23Stepper3, the Bogacki-Shampine stepper with dense output       *)
(*     (src/tracing/stepping/rkf/rkf23.rs).                                *)
(***************************************************************************)
EXTENDS Integers, Sequences, FiniteSets, TLC

(***************************************************************************)
(* Bounds of the swarm model.                                              *)
(***************************************************************************)
NSeeds == 3

Seeds == 1..NSeeds
\* The threads of the pool that run the parallel iterator.
Workers == {"w1", "w2"}

VARIABLES
    traceOf,        \* what tracer.trace returns for each start position
    pending,        \* start positions the parallel iterator has not handed out
    running,        \* per worker: the invocation of tracer.trace in progress
    produced,       \* number of calls of stepper_factory.produce() so far
    invocations,    \* history: per start position, the steppers passed to tracer.trace
    local,          \* per worker: its accumulator of the reduction
    merged,         \* workers whose accumulator has been merged
    properties,     \* the FieldLineSetProperties3 being collected
    field,          \* the vector field being traced
    start,          \* the start position of the trajectory
    dense,          \* whether the driver calls step_dense_output or step
    stepper,        \* the RKF23Stepper3 of the trajectory (its RKFStepperState3)
    pc,             \* where the driver of the trajectory is
    attempts,       \* rejected attempts of the step call in progress
    tried,          \* history: what the last call of attempt_step returned
    before,         \* history: the stepper state when the last attempt was made
    result,         \* the StepperResult of the last call of place or step
    emitted,        \* history: the points passed to the callback
    directions,     \* history: the direction after place and each accepted step
    steps,          \* number of step calls made
    terminate_at,   \* the invocation at which the callback returns Terminate (0: none)
    queue,          \* start positions one worker still has to trace, in order
    traces,         \* history: the traces the worker has finished, in order
    command_line,   \* the value given on the command line for each option
    arguments,      \* the ArgMatches clap hands to the subcommand
    cli_pc,         \* how far the command line has got
    constructed,    \* what construct_rkf_stepper_config_from_options returned
    built,          \* the stepper state RKF23Stepper3::new returned
    run_input,      \* the simulate run: its options and the faults it meets
    sim_pc,         \* the stage the simulate pipeline is at
    done,           \* history: the stages that have succeeded, in order
    files,          \* the content at the target and temporary output paths
    to_write,       \* the arguments of write_field_line_data_as_custom_binary
    write_pc,       \* whether the writer has run
    written,        \* what the writer got: the sections in order, and the buffer size
    cork_input,     \* the cork tracing run: its snapshot range and what it meets
    corks_state,    \* the Option<CorksState> kept between the snapshots
    current_offset, \* snap_num_in_range.current_offset
    cork_pc,        \* whether the cork tracing run goes on
    cork_trace,     \* history: what the invocations did, as [offset, event] records
    cached_fields,  \* whether the snapshot cacher holds fields
    cork_output,    \* what the output path of the corks holds
    simulate_line,  \* the command line of the simulate subcommand
    mode_arguments, \* the matches handed down the simulate pipeline
    mode_pc,        \* the next function of the simulate pipeline
    overwrite_mode, \* the overwrite mode set in the IO context
    line_set,       \* the FieldLineSetProperties3 of a field line set
    traced_set,     \* history: the properties as the tracing left them
    before_extract, \* history: the properties before the last extraction
    last_extract,   \* history: the last extraction, its operation and field
    extract_pc,     \* whether the program goes on extracting
    ftr_input,      \* the values a stepper operation is evaluated on in ftr
    ftr_result,     \* what the operation returned
    ftr_pc          \* whether the operation has been evaluated

swarmVars == <<traceOf, pending, running, produced, invocations, local, merged,
               properties>>

stepVars == <<field, start, dense, stepper, pc, attempts, tried, before, result,
              emitted, directions, steps, terminate_at, queue, traces>>

cliVars == <<command_line, arguments, cli_pc, constructed, built>>

simVars == <<run_input, sim_pc, done, files>>

writeVars == <<to_write, write_pc, written>>

corkVars ==
    <<cork_input, corks_state, current_offset, cork_pc, cork_trace, cached_fields,
      cork_output>>

modeVars == <<simulate_line, mode_arguments, mode_pc, overwrite_mode>>

extractVars == <<line_set, traced_set, before_extract, last_extract, extract_pc>>

ftrVars == <<ftr_input, ftr_result, ftr_pc>>

moreVars == <<corkVars, modeVars, extractVars, ftrVars>>

restVars == <<cliVars, simVars, writeVars, moreVars>>

vars == <<swarmVars, stepVars, restVars>>

(***************************************************************************)
(* Helpers.                                                                *)
(***************************************************************************)
RECURSIVE SeqSum(_)
SeqSum(s) == IF s = <<>> THEN 0 ELSE Head(s) + SeqSum(Tail(s))

Range(s) == {s[i] : i \in 1..Len(s)}

\* A sequence of n copies of v.
Repeat(v, n) == [i \in 1..n |-> v]

(***************************************************************************)
(* The data a tracer returns for one start position.  A tracer either      *)
(* aborts (None) or returns the traced path: the coordinates of its        *)
(* points and, for some tracers, one more named series along the path.     *)
(* Values are codes that identify seed, point index and series.            *)
(***************************************************************************)
TraceKinds ==
    {[some |-> FALSE, len |-> 1, extra |-> FALSE],
     [some |-> TRUE, len |-> 1, extra |-> FALSE],
     [some |-> TRUE, len |-> 2, extra |-> FALSE],
     [some |-> TRUE, len |-> 2, extra |-> TRUE]}

Val(s, k, c) == s * 100 + k * 10 + c

FixedKeys == {"x0", "y0", "z0"}
PathKeys == {"x", "y", "z"}
ExtraKey == "s"
SeriesCode(key) ==
    CASE key \in {"x", "x0"} -> 1
      [] key \in {"y", "y0"} -> 2
      [] key \in {"z", "z0"} -> 3
      [] OTHER -> 4

\* The trajectory of seed s of the given kind, as a one-trajectory
\* accumulator in the columnar shape of FieldLineSetProperties3.
TraceData(s, kind) ==
    [number_of_field_lines |-> 1,
     fixed_scalar_values |->
        [key \in FixedKeys |-> <<Val(s, 1, SeriesCode(key))>>],
     varying_scalar_values |->
        [key \in (IF kind.extra THEN PathKeys \cup {ExtraKey} ELSE PathKeys) |->
            <<[k \in 1..kind.len |-> Val(s, k, SeriesCode(key))]>>]]

EmptyProperties ==
    [number_of_field_lines |-> 0,
     fixed_scalar_values |-> <<>>,
     varying_scalar_values |-> <<>>]

\* Inner lengths of the trajectories of an accumulator, taken from any of
\* its varying series ("x" is always present once a trajectory is held).
InnerLengths(acc) ==
    IF acc.number_of_field_lines = 0 THEN <<>>
    ELSE [i \in 1..acc.number_of_field_lines |->
            Len(acc.varying_scalar_values["x"][i])]

\* A series absent from one side is padded with per-trajectory defaults of
\* matching inner length.
PaddedVarying(acc, key) ==
    IF key \in DOMAIN acc.varying_scalar_values
    THEN acc.varying_scalar_values[key]
    ELSE [i \in 1..acc.number_of_field_lines |-> Repeat(0, InnerLengths(acc)[i])]

PaddedFixed(acc, key) ==
    IF key \in DOMAIN acc.fixed_scalar_values
    THEN acc.fixed_scalar_values[key]
    ELSE Repeat(0, acc.number_of_field_lines)

\* Merging two accumulators concatenates the outer arrays and merges the keys.
MergeProperties(a, b) ==
    [number_of_field_lines |-> a.number_of_field_lines + b.number_of_field_lines,
     fixed_scalar_values |->
        [key \in (DOMAIN a.fixed_scalar_values) \cup (DOMAIN b.fixed_scalar_values) |->
            PaddedFixed(a, key) \o PaddedFixed(b, key)],
     varying_scalar_values |->
        [key \in (DOMAIN a.varying_scalar_values) \cup (DOMAIN b.varying_scalar_values) |->
            PaddedVarying(a, key) \o PaddedVarying(b, key)]]

(***************************************************************************)
(* FieldLineSet3::trace.                                                   *)
(***************************************************************************)
Idle == [seed |-> 0, stepper |-> 0]

\* A factory that hands out the same stepper on every call.
ProduceShared(n) == 1

\* stepper_factory.produce(): a stepper that did not exist before.
Produce(n) == n + 1

\* No command line is being processed.
CliOff ==
    /\ command_line = <<>> /\ arguments = <<>> /\ cli_pc = "off"
    /\ constructed = <<>> /\ built = <<>>

\* No simulate pipeline is running.
SimOff ==
    /\ run_input = <<>> /\ sim_pc = "off" /\ done = <<>> /\ files = <<>>

\* No output is being written.
WriteOff ==
    /\ to_write = <<>> /\ write_pc = "off" /\ written = <<>>

\* No cork tracing is running.
CorksOff ==
    /\ cork_input = <<>> /\ corks_state = "None" /\ current_offset = 0
    /\ cork_pc = "off" /\ cork_trace = <<>> /\ cached_fields = FALSE
    /\ cork_output = "absent"

\* No simulate command line is being interpreted.
ModeOff ==
    /\ simulate_line = <<>> /\ mode_arguments = 0
    /\ mode_pc = "off" /\ overwrite_mode = "unset"

\* No field line set is being extracted into.
ExtractOff ==
    /\ line_set = <<>> /\ traced_set = <<>> /\ before_extract = <<>>
    /\ last_extract = <<>> /\ extract_pc = "off"

\* No operation is being evaluated in ftr arithmetic.
FtrOff == ftr_input = <<>> /\ ftr_result = <<>> /\ ftr_pc = "off"

MoreOff == CorksOff /\ ModeOff /\ ExtractOff /\ FtrOff

RestOff == CliOff /\ SimOff /\ WriteOff /\ MoreOff

InitSwarm ==
    /\ traceOf \in [Seeds -> TraceKinds]
    /\ pending = Seeds
    /\ running = [w \in Workers |-> Idle]
    /\ produced = 0
    /\ invocations = [s \in Seeds |-> <<>>]
    /\ local = [w \in Workers |-> EmptyProperties]
    /\ merged = {}
    /\ properties = EmptyProperties
    /\ field = <<>> /\ start = <<>> /\ dense = FALSE /\ stepper = <<>>
    /\ pc = "off" /\ attempts = 0 /\ tried = <<>> /\ before = <<>>
    /\ result = <<>> /\ emitted = <<>> /\ directions = <<>> /\ steps = 0
    /\ terminate_at = 0 /\ queue = <<>> /\ traces = <<>>
    /\ RestOff

\* The parallel iterator hands start position s to worker w, which evaluates
\* the arguments of tracer.trace (among them a stepper from the factory) and
\* enters the call.
StartTrace(w, s) ==
    /\ running[w] = Idle
    /\ s \in pending
    /\ pending' = pending \ {s}
    /\ produced' = Produce(produced)
    /\ running' = [running EXCEPT ![w] = [seed |-> s, stepper |-> produced']]
    /\ invocations' = [invocations EXCEPT ![s] = Append(@, produced')]
    /\ UNCHANGED <<traceOf, local, merged, properties, stepVars, restVars>>

\* A closure under map instead of filter_map: an aborted trace is kept as a
\* trajectory too.
FinishTraceKeepsAborted(w) ==
    /\ running[w] # Idle
    /\ running' = [running EXCEPT ![w] = Idle]
    /\ local' = [local EXCEPT ![w] =
                    MergeProperties(@, TraceData(running[w].seed, traceOf[running[w].seed]))]
    /\ UNCHANGED <<traceOf, pending, produced, invocations, merged, properties, stepVars, restVars>>

\* tracer.trace returns; filter_map drops None and passes Some on to the
\* worker's accumulator.
FinishTrace(w) ==
    /\ running[w] # Idle
    /\ running' = [running EXCEPT ![w] = Idle]
    /\ local' = [local EXCEPT ![w] =
                    IF traceOf[running[w].seed].some
                    THEN MergeProperties(@, TraceData(running[w].seed, traceOf[running[w].seed]))
                    ELSE @]
    /\ UNCHANGED <<traceOf, pending, produced, invocations, merged, properties, stepVars, restVars>>

AllTraced == pending = {} /\ \A w \in Workers : running[w] = Idle

\* A collect that keeps only the accumulator merged last.
MergeLocalOverwrite(w) ==
    /\ AllTraced
    /\ w \notin merged
    /\ merged' = merged \cup {w}
    /\ properties' = local[w]
    /\ UNCHANGED <<traceOf, pending, running, produced, invocations, local, stepVars, restVars>>

\* collect(): the accumulators of the workers are merged into the result.
MergeLocal(w) ==
    /\ AllTraced
    /\ w \notin merged
    /\ merged' = merged \cup {w}
    /\ properties' = MergeProperties(properties, local[w])
    /\ UNCHANGED <<traceOf, pending, running, produced, invocations, local, stepVars, restVars>>

TraceDone == AllTraced /\ merged = Workers

NextSwarm ==
    \/ \E w \in Workers, s \in Seeds : StartTrace(w, s)
    \/ \E w \in Workers : FinishTrace(w)
    \/ \E w \in Workers : MergeLocal(w)

SpecSwarm == InitSwarm /\ [][NextSwarm]_vars

(***************************************************************************)
(* Claims about FieldLineSet3::trace.                                      *)
(***************************************************************************)
SomeSeeds == {s \in Seeds : traceOf[s].some}
AllSteppers == UNION {Range(invocations[s]) : s \in Seeds}

\* C1: the tracer is invoked exactly once per start position handed out (and
\* once for every start position when the trace is done), no stepper is
\* passed to two invocations, and number_of_field_lines of the result is the
\* number of invocations that returned Some.
C1_OnceEachFreshStepper ==
    /\ \A s \in Seeds : Len(invocations[s]) = (IF s \in pending THEN 0 ELSE 1)
    /\ Cardinality(AllSteppers) = SeqSum([s \in Seeds |-> Len(invocations[s])])
    /\ TraceDone => /\ \A s \in Seeds : Len(invocations[s]) = 1
                    /\ properties.number_of_field_lines = Cardinality(SomeSeeds)

\* The trace has completed with both workers having traced start positions;
\* some invocations returned Some and some returned None.
C1_Witness ==
    /\ TraceDone
    /\ SomeSeeds # Seeds /\ SomeSeeds # {}
    /\ \A w \in Workers : local[w].number_of_field_lines > 0

AllSome == SomeSeeds = Seeds

\* C2: with a tracer that always returns Some, every outer array of the
\* result has length N (the number of start positions) and all varying
\* series agree on the inner length at each trajectory index.
C2_ShapeOfResult ==
    (TraceDone /\ AllSome) =>
        /\ properties.number_of_field_lines = NSeeds
        /\ FixedKeys \subseteq DOMAIN properties.fixed_scalar_values
        /\ PathKeys \subseteq DOMAIN properties.varying_scalar_values
        /\ \A key \in DOMAIN properties.fixed_scalar_values :
              Len(properties.fixed_scalar_values[key]) = NSeeds
        /\ \A key \in DOMAIN properties.varying_scalar_values :
              Len(properties.varying_scalar_values[key]) = NSeeds
        /\ \A i \in 1..NSeeds :
              \A k1, k2 \in DOMAIN properties.varying_scalar_values :
                Len(properties.varying_scalar_values[k1][i]) =
                Len(properties.varying_scalar_values[k2][i])

\* The trace is done, every tracer call returned Some, both workers
\* contributed, and a series held by only some trajectories was padded.
C2_Witness ==
    /\ TraceDone /\ AllSome
    /\ \A w \in Workers : local[w].number_of_field_lines > 0
    /\ \E s, t \in Seeds : traceOf[s].extra /\ ~traceOf[t].extra /\ traceOf[s].len # traceOf[t].len

\* The start position whose trajectory is held at index i of the result.
SeedAt(i) == properties.fixed_scalar_values["x0"][i] \div 100

\* C3: the result holds exactly the trajectories the tracer returned, one
\* index each; at every index all fixed and varying series refer to the same
\* trajectory, with its points in the order the tracer produced them.
C3_SameTrajectoriesAligned ==
    TraceDone =>
        LET n == properties.number_of_field_lines IN
        /\ n = Cardinality(SomeSeeds)
        /\ n > 0 =>
            /\ {SeedAt(i) : i \in 1..n} = SomeSeeds
            /\ \A i \in 1..n :
                LET data == TraceData(SeedAt(i), traceOf[SeedAt(i)]) IN
                /\ \A key \in DOMAIN properties.fixed_scalar_values :
                      properties.fixed_scalar_values[key][i] =
                      data.fixed_scalar_values[key][1]
                /\ \A key \in DOMAIN properties.varying_scalar_values :
                      properties.varying_scalar_values[key][i] =
                      PaddedVarying(data, key)[1]

\* Two completed traces of the same seeds and tracer hold their trajectories
\* in different orders: here the result is not in seeder order.
C3_Witness ==
    /\ TraceDone
    /\ properties.number_of_field_lines = NSeeds
    /\ \E i \in 1..(NSeeds - 1) : SeedAt(i) > SeedAt(i + 1)
    /\ \E s \in Seeds : traceOf[s].len > 1

(***************************************************************************)
(* Arithmetic of the stepper.  The tracing float type ftr is modelled by   *)
(* exact rationals <<numerator, denominator>> in lowest terms.             *)
(***************************************************************************)
Abs(n) == IF n < 0 THEN -n ELSE n

\* F applied to v: the body F of a let binding applied to the bound value v,
\* which is computed once.
Bind(v, F(_)) == F(v)

RECURSIVE GCD(_, _)
GCD(a, b) == IF b = 0 THEN a ELSE GCD(b, a % b)

Rat(n, d) ==
    LET g == GCD(Abs(n), Abs(d))
        sgn == IF d < 0 THEN -1 ELSE 1
    IN  <<(sgn * n) \div g, (sgn * d) \div g>>

R(n) == <<n, 1>>
RAdd(a, b) == Rat(a[1] * b[2] + b[1] * a[2], a[2] * b[2])
RNeg(a) == <<-a[1], a[2]>>
RSub(a, b) == RAdd(a, RNeg(b))
RMul(a, b) == Rat(a[1] * b[1], a[2] * b[2])
RDiv(a, b) == Rat(a[1] * b[2], a[2] * b[1])
RLess(a, b) == a[1] * b[2] < b[1] * a[2]
RLeq(a, b) == a[1] * b[2] <= b[1] * a[2]
RAbs(a) == <<Abs(a[1]), a[2]>>
RMax(a, b) == IF RLess(a, b) THEN b ELSE a
RMin(a, b) == IF RLess(a, b) THEN a ELSE b
RFloor(a) == a[1] \div a[2]

\* Vec3 and Point3: triples of components X, Y, Z.
Dims == {1, 2, 3}
VZero == <<R(0), R(0), R(0)>>
VAdd(u, v) == <<RAdd(u[1], v[1]), RAdd(u[2], v[2]), RAdd(u[3], v[3])>>
VScale(v, r) == <<RMul(v[1], r), RMul(v[2], r), RMul(v[3], r)>>
VNeg(v) == <<RNeg(v[1]), RNeg(v[2]), RNeg(v[3])>>

\* A dot product that leaves out the z components.
DotPlanar(u, v) == RAdd(RMul(u[1], v[1]), RMul(u[2], v[2]))

\* Vec3::dot
Dot(u, v) == RAdd(RAdd(RMul(u[1], v[1]), RMul(u[2], v[2])), RMul(u[3], v[3]))

\* A test for the zero vector that never finds it.
IsZeroNever(v) == FALSE

\* Vec3::is_zero
IsZero(v) == \A c \in Dims : v[c][1] = 0

\* Vec3::length for the vectors of the model, which are parallel to an axis:
\* the square root of the squared length is the one non-zero |component|.
Length(v) == RAdd(RAdd(RAbs(v[1]), RAbs(v[2])), RAbs(v[3]))


\* A normalize that hands the vector back with its length unchanged.
NormalizeUnscaled(v) ==
    IF Length(v) = R(0)
    THEN [asserted |-> FALSE, vector |-> v]
    ELSE [asserted |-> TRUE, vector |-> v]

\* Vec3::normalize: the assertion length != 0 fails (asserted is FALSE) on a
\* vector of length zero, which is left as it is.
Normalize(v) ==
    IF Length(v) = R(0)
    THEN [asserted |-> FALSE, vector |-> v]
    ELSE [asserted |-> TRUE, vector |-> VScale(v, RDiv(R(1), Length(v)))]

(***************************************************************************)
(* Grid: x and y periodic, z not (the grid of the spec's scenarios),       *)
(* extent [0,3/2) x [0,1) x [0,3/2).                                       *)
(***************************************************************************)
LowerBounds == <<R(0), R(0), R(0)>>
UpperBounds == <<Rat(3, 2), R(1), Rat(3, 2)>>
IsPeriodic == <<TRUE, TRUE, FALSE>>

InRange(p, c) == RLeq(LowerBounds[c], p[c]) /\ RLess(p[c], UpperBounds[c])

\* The coordinate reduced into [lower, upper) by whole extents.
WrapCoord(x, c) ==
    LET extent == RSub(UpperBounds[c], LowerBounds[c])
        n == RFloor(RDiv(RSub(x, LowerBounds[c]), extent))
    IN  RSub(x, RMul(R(n), extent))

WrappedCoord(p, c) == IF IsPeriodic[c] THEN WrapCoord(p[c], c) ELSE p[c]

\* grid.wrap_point: None outside a non-periodic boundary, else the point with
\* its periodic coordinates reduced into range.
WrapPoint(p) ==
    IF \E c \in Dims : ~IsPeriodic[c] /\ ~InRange(p, c)
    THEN [some |-> FALSE, point |-> p]
    ELSE [some |-> TRUE,
          point |-> <<WrappedCoord(p, 1), WrappedCoord(p, 2), WrappedCoord(p, 3)>>]

(***************************************************************************)
(* Vector fields of the model: stratified along x or along z in three      *)
(* strips of width 1/2; in each strip the field has strength 2 along one   *)
(* of the axes x, z, or is null.  Sampling stands for interp_vector_field. *)
(***************************************************************************)
DirNames == {"+x", "-x", "+z", "-z", "0"}
DirVec(name) ==
    CASE name = "0" -> <<R(0), R(0), R(0)>>
      [] name = "+x" -> <<R(1), R(0), R(0)>>
      [] name = "-x" -> <<R(-1), R(0), R(0)>>
      [] name = "+z" -> <<R(0), R(0), R(1)>>
      [] name = "-z" -> <<R(0), R(0), R(-1)>>
Strips == 0..2
Fields == [axis : {1, 3}, dirs : [Strips -> DirNames]]
FieldStrength == R(2)

StripOf(f, p) == RFloor(RMul(p[f.axis], R(2)))
FieldSample(f, p) == VScale(DirVec(f.dirs[StripOf(f, p)]), FieldStrength)

\* compute_direction: the normalized field sample at the position, with the
\* wrapped position when the position had to be wrapped into the grid;
\* Stopped(OutOfBounds) when the position is outside a non-periodic boundary
\* and Stopped(Null) when the sample is the zero vector.  Panicked: the
\* assertion of normalize failed.
Direction(kind, cause, direction, position) ==
    [kind |-> kind, cause |-> cause, direction |-> direction, position |-> position]

ComputeDirection(f, p) ==
    Bind(WrapPoint(p), LAMBDA w :
    IF ~w.some THEN Direction("Stopped", "OutOfBounds", VZero, p) ELSE
    Bind(FieldSample(f, w.point), LAMBDA field_vector :
    IF IsZero(field_vector) THEN Direction("Stopped", "Null", VZero, w.point) ELSE
    Bind(Normalize(field_vector), LAMBDA normalized :
    IF ~normalized.asserted THEN Direction("Panicked", "normalize", VZero, w.point)
    ELSE Direction(IF w.point = p THEN "Standard" ELSE "WithWrappedPosition",
                   "", normalized.vector, w.point))))

(***************************************************************************)
(* RKF23Stepper3                                                           *)
(***************************************************************************)
ORDER == 3
N_INTERMEDIATE_STEPS == 2

A21 == Rat(1, 2)
A32 == Rat(3, 4)
A41 == Rat(2, 9)
A42 == Rat(1, 3)
A43 == Rat(4, 9)

E1 == Rat(-5, 72)
E2 == Rat(1, 12)
E3 == Rat(1, 9)
E4 == Rat(-1, 8)

\* Bounds of the stepper model: the configured numbers of attempts and of
\* reversals, and the number of step calls the driver makes.
MaxStepAttempts == 3
SuddenReversalsForSink == 2
MaxSteps == 3

\* The pairs <<absolute_tolerance, relative_tolerance>> of the model: lax,
\* moderate and strict.
Tolerances ==
    {<<Rat(1, 4), Rat(1, 8)>>, <<Rat(1, 32), Rat(1, 8)>>, <<Rat(1, 256), Rat(1, 256)>>}

\* RKFStepperConfig: the configurations of the model (PI control disabled).
Configs ==
    {[dense_step_size |-> d,
      max_step_attempts |-> MaxStepAttempts,
      absolute_tolerance |-> t[1],
      relative_tolerance |-> t[2],
      safety_factor |-> R(1),
      min_step_scale |-> Rat(1, 4),
      max_step_scale |-> R(2),
      initial_error |-> Rat(1, 16),
      initial_step_size |-> h,
      sudden_reversals_for_sink |-> SuddenReversalsForSink,
      use_pi_control |-> FALSE] :
        d \in {Rat(1, 4), Rat(3, 8)}, t \in Tolerances, h \in {R(1), Rat(1, 2)}}

\* A stepper on which new set next_output_distance to zero.
NewStepperOutputAtZero(config) ==
    [config |-> config,
     position |-> VZero,
     direction |-> VZero,
     distance |-> R(0),
     step_size |-> config.initial_step_size,
     error |-> config.initial_error,
     n_sudden_reversals |-> 0,
     previous_step_size |-> R(0),
     previous_position |-> VZero,
     previous_direction |-> VZero,
     intermediate_directions |-> <<>>,
     previous_step_displacement |-> VZero,
     previous_step_wrapped |-> FALSE,
     next_output_distance |-> R(0)]

\* RKF23Stepper3::new
NewStepper(config) ==
    [config |-> config,
     position |-> VZero,
     direction |-> VZero,
     distance |-> R(0),
     step_size |-> config.initial_step_size,
     error |-> config.initial_error,
     n_sudden_reversals |-> 0,
     previous_step_size |-> R(0),
     previous_position |-> VZero,
     previous_direction |-> VZero,
     intermediate_directions |-> <<>>,
     previous_step_displacement |-> VZero,
     previous_step_wrapped |-> FALSE,
     next_output_distance |-> config.dense_step_size]

NoAttempt ==
    [step_displacement |-> VZero,
     next_position |-> VZero,
     next_direction |-> VZero,
     intermediate_directions |-> <<>>,
     step_wrapped |-> FALSE]

Stopped(cause, evals) ==
    [kind |-> "Stopped", cause |-> cause, attempt |-> NoAttempt, evals |-> evals]

\* A panic raised by one of the evaluations unwinds through attempt_step.
Panicked(cause, evals) ==
    [kind |-> "Panicked", cause |-> cause, attempt |-> NoAttempt, evals |-> evals]

\* An attempt_step that marks the step as wrapped when any of its three
\* evaluation points was wrapped.
AttemptStepWrapAnywhere(state, f) ==
    Bind(ComputeDirection(f, VAdd(state.position,
                                  VScale(state.direction, RMul(A21, state.step_size)))),
    LAMBDA c1 :
    IF c1.kind = "Panicked" THEN Panicked(c1.cause, <<c1>>) ELSE
    IF c1.kind = "Stopped" THEN Stopped(c1.cause, <<c1>>) ELSE
    Bind(c1.direction,
    LAMBDA intermediate_direction_1 :
    Bind(ComputeDirection(f, VAdd(state.position,
                                  VScale(intermediate_direction_1,
                                         RMul(A32, state.step_size)))),
    LAMBDA c2 :
    IF c2.kind = "Panicked" THEN Panicked(c2.cause, <<c1, c2>>) ELSE
    IF c2.kind = "Stopped" THEN Stopped(c2.cause, <<c1, c2>>) ELSE
    Bind(c2.direction,
    LAMBDA intermediate_direction_2 :
    Bind(VScale(VAdd(VAdd(VScale(state.direction, A41),
                          VScale(intermediate_direction_1, A42)),
                     VScale(intermediate_direction_2, A43)),
                state.step_size),
    LAMBDA step_displacement :
    Bind(VAdd(state.position, step_displacement),
    LAMBDA unwrapped :
    Bind(ComputeDirection(f, unwrapped),
    LAMBDA c3 :
    IF c3.kind = "Panicked" THEN Panicked(c3.cause, <<c1, c2, c3>>) ELSE
    IF c3.kind = "Stopped" THEN Stopped(c3.cause, <<c1, c2, c3>>) ELSE
    [kind |-> "Ok", cause |-> "",
     attempt |->
        [step_displacement |-> step_displacement,
         next_position |-> IF c3.kind = "WithWrappedPosition" THEN c3.position ELSE unwrapped,
         next_direction |-> c3.direction,
         intermediate_directions |-> <<intermediate_direction_1, intermediate_direction_2>>,
         step_wrapped |-> "WithWrappedPosition" \in {c1.kind, c2.kind, c3.kind}],
     evals |-> <<c1, c2, c3>>])))))))

\* An attempt_step that goes on to the second node when the direction at the
\* first node is Stopped, with the current direction in its place.
AttemptStepNoEarlyReturn(state, f) ==
    Bind(ComputeDirection(f, VAdd(state.position,
                                  VScale(state.direction, RMul(A21, state.step_size)))),
    LAMBDA c1 :
    Bind(IF c1.kind = "Stopped" THEN state.direction ELSE c1.direction,
    LAMBDA intermediate_direction_1 :
    Bind(ComputeDirection(f, VAdd(state.position,
                                  VScale(intermediate_direction_1,
                                         RMul(A32, state.step_size)))),
    LAMBDA c2 :
    IF c2.kind = "Panicked" THEN Panicked(c2.cause, <<c1, c2>>) ELSE
    IF c2.kind = "Stopped" THEN Stopped(c2.cause, <<c1, c2>>) ELSE
    Bind(c2.direction,
    LAMBDA intermediate_direction_2 :
    Bind(VScale(VAdd(VAdd(VScale(state.direction, A41),
                          VScale(intermediate_direction_1, A42)),
                     VScale(intermediate_direction_2, A43)),
                state.step_size),
    LAMBDA step_displacement :
    Bind(VAdd(state.position, step_displacement),
    LAMBDA unwrapped :
    Bind(ComputeDirection(f, unwrapped),
    LAMBDA c3 :
    IF c3.kind = "Panicked" THEN Panicked(c3.cause, <<c1, c2, c3>>) ELSE
    IF c3.kind = "Stopped" THEN Stopped(c3.cause, <<c1, c2, c3>>) ELSE
    [kind |-> "Ok", cause |-> "",
     attempt |->
        [step_displacement |-> step_displacement,
         next_position |-> IF c3.kind = "WithWrappedPosition" THEN c3.position ELSE unwrapped,
         next_direction |-> c3.direction,
         intermediate_directions |-> <<intermediate_direction_1, intermediate_direction_2>>,
         step_wrapped |-> c3.kind = "WithWrappedPosition"],
     evals |-> <<c1, c2, c3>>])))))))

\* RKF23Stepper3::attempt_step.  evals records, in order, the results of the
\* calls of compute_direction the attempt made.
AttemptStep(state, f) ==
    Bind(ComputeDirection(f, VAdd(state.position,
                                  VScale(state.direction, RMul(A21, state.step_size)))),
    LAMBDA c1 :
    IF c1.kind = "Panicked" THEN Panicked(c1.cause, <<c1>>) ELSE
    IF c1.kind = "Stopped" THEN Stopped(c1.cause, <<c1>>) ELSE
    Bind(c1.direction,
    LAMBDA intermediate_direction_1 :
    Bind(ComputeDirection(f, VAdd(state.position,
                                  VScale(intermediate_direction_1,
                                         RMul(A32, state.step_size)))),
    LAMBDA c2 :
    IF c2.kind = "Panicked" THEN Panicked(c2.cause, <<c1, c2>>) ELSE
    IF c2.kind = "Stopped" THEN Stopped(c2.cause, <<c1, c2>>) ELSE
    Bind(c2.direction,
    LAMBDA intermediate_direction_2 :
    Bind(VScale(VAdd(VAdd(VScale(state.direction, A41),
                          VScale(intermediate_direction_1, A42)),
                     VScale(intermediate_direction_2, A43)),
                state.step_size),
    LAMBDA step_displacement :
    Bind(VAdd(state.position, step_displacement),
    LAMBDA unwrapped :
    Bind(ComputeDirection(f, unwrapped),
    LAMBDA c3 :
    IF c3.kind = "Panicked" THEN Panicked(c3.cause, <<c1, c2, c3>>) ELSE
    IF c3.kind = "Stopped" THEN Stopped(c3.cause, <<c1, c2, c3>>) ELSE
    [kind |-> "Ok", cause |-> "",
     attempt |->
        [step_displacement |-> step_displacement,
         next_position |-> IF c3.kind = "WithWrappedPosition" THEN c3.position ELSE unwrapped,
         next_direction |-> c3.direction,
         intermediate_directions |-> <<intermediate_direction_1, intermediate_direction_2>>,
         step_wrapped |-> c3.kind = "WithWrappedPosition"],
     evals |-> <<c1, c2, c3>>])))))))

\* RKF23Stepper3::compute_error_deltas
ComputeErrorDeltas(state, attempt) ==
    VScale(VAdd(VAdd(VAdd(VScale(state.direction, E1),
                          VScale(attempt.intermediate_directions[1], E2)),
                     VScale(attempt.intermediate_directions[2], E3)),
                VScale(attempt.next_direction, E4)),
           state.step_size)

\* The resolution to which the model evaluates the scaled error components,
\* and the value above which it does not tell them apart (the step scale of
\* an error that large is min_step_scale whatever the error).
Resolution == 16
ErrorCap == 16

\* |r| rounded down to a multiple of 1/Resolution, and capped.
Quantized(r) ==
    RMin(R(ErrorCap), Rat(RFloor(RMul(RAbs(r), R(Resolution))), Resolution))

\* The error component delta_c / (abs_tol + rel_tol max(|x_c|, |x'_c|)),
\* evaluated to the resolution of the model.
ScaledError(state, attempt, deltas, c) ==
    Quantized(RDiv(deltas[c],
                   RAdd(state.config.absolute_tolerance,
                        RMul(state.config.relative_tolerance,
                             RMax(RAbs(state.position[c]),
                                  RAbs(attempt.next_position[c]))))))

\* The square of the error norm: the mean of the squared scaled components.
ComputeErrorSq(state, attempt) ==
    Bind(ComputeErrorDeltas(state, attempt), LAMBDA deltas :
    Bind(<<ScaledError(state, attempt, deltas, 1),
           ScaledError(state, attempt, deltas, 2),
           ScaledError(state, attempt, deltas, 3)>>, LAMBDA q :
    RMul(Rat(1, 3),
         RAdd(RAdd(RMul(q[1], q[1]), RMul(q[2], q[2])), RMul(q[3], q[3])))))

RECURSIVE Pow(_, _)
Pow(b, e) == IF e = 0 THEN 1 ELSE b * Pow(b, e - 1)

\* err^(-1/p) for the order p of the advance, with err rounded up to the next
\* power 2^(p k), k in -1..1, so that the root is the rational 2^(-k); beyond
\* these the scale is clamped by the configurations of the model anyway.
Exponents == -1..1
TwoTo(k) == IF k >= 0 THEN R(Pow(2, k)) ELSE Rat(1, Pow(2, -k))
ErrorRootInverse(errSq) ==
    LET fits == {k \in Exponents : RLeq(errSq, TwoTo(2 * ORDER * k))} IN
    IF fits = {} THEN Rat(1, 4)
    ELSE TwoTo(-(CHOOSE k \in fits : \A j \in fits : k <= j))

\* A step size control that always enlarges the step.
ComputeStepSizeGrowing(state, errSq) ==
    RMul(state.step_size, state.config.max_step_scale)

\* The step size after an attempt with the given error: the scale
\* safety * err^(-1/p), clamped to [min_step_scale, max_step_scale].
ComputeStepSize(state, errSq) ==
    LET scale == RMul(state.config.safety_factor, ErrorRootInverse(errSq))
        clamped == RMax(state.config.min_step_scale,
                        RMin(state.config.max_step_scale, scale))
    IN  RMul(state.step_size, clamped)

\* RKF23Stepper3::compute_dense_interpolation_coefs
ComputeDenseInterpolationCoefs(state) ==
    <<state.previous_position,
      state.previous_step_displacement,
      VScale(state.previous_direction, state.previous_step_size),
      VScale(state.direction, state.previous_step_size)>>

\* The cubic Hermite interpolant of interpolate_dense_position.
DensePolynomial(coefs, fraction) ==
    Bind(RSub(fraction, R(1)), LAMBDA fraction_minus_one :
    VAdd(VAdd(coefs[1], VScale(coefs[2], fraction)),
         VScale(VAdd(VAdd(VScale(coefs[2], RNeg(RAdd(fraction, fraction_minus_one))),
                          VScale(coefs[3], fraction_minus_one)),
                     VScale(coefs[4], fraction)),
                RMul(fraction, fraction_minus_one))))

\* RKF23Stepper3::interpolate_dense_position.  panicked: the unwrap of
\* grid.wrap_point failed.
InterpolateDensePosition(state, coefs, fraction) ==
    Bind(DensePolynomial(coefs, fraction), LAMBDA position :
    IF state.previous_step_wrapped
    THEN Bind(WrapPoint(position), LAMBDA w :
              [panicked |-> ~w.some, position |-> w.point])
    ELSE [panicked |-> FALSE, position |-> position])

(***************************************************************************)
(* One trajectory: place, then step or step_dense_output until Stopped.    *)
(***************************************************************************)
Starts ==
    {<<Rat(1, 2), Rat(1, 2), Rat(1, 2)>>,
     <<Rat(47, 32), Rat(1, 2), Rat(1, 2)>>,
     <<R(1), Rat(1, 2), Rat(47, 32)>>,
     <<Rat(1, 2), Rat(1, 2), R(2)>>}

Ok == [kind |-> "Ok", cause |-> ""]
StoppedBy(cause) == [kind |-> "Stopped", cause |-> cause]
NoResult == [kind |-> "None", cause |-> ""]
PanickedIn(cause) == [kind |-> "Panicked", cause |-> cause]

\* The callbacks of the model: the one that always returns Continue (0) and
\* those that return Terminate on their first or on their third invocation.
Terminations == {0, 1, 3}

\* The StepperInstruction the callback returns on its n-th invocation.
Callback(n) == IF n = terminate_at THEN "Terminate" ELSE "Continue"

InitStep ==
    /\ traceOf = [s \in Seeds |-> [some |-> FALSE, len |-> 1, extra |-> FALSE]]
    /\ pending = {}
    /\ running = [w \in Workers |-> Idle]
    /\ produced = 0
    /\ invocations = [s \in Seeds |-> <<>>]
    /\ local = [w \in Workers |-> EmptyProperties]
    /\ merged = {}
    /\ properties = EmptyProperties
    /\ field \in Fields
    /\ start \in Starts
    /\ dense \in BOOLEAN
    /\ stepper \in {NewStepper(config) : config \in Configs}
    /\ pc = "new"
    /\ attempts = 0
    /\ tried = Stopped("", <<>>)
    /\ before = stepper
    /\ result = NoResult
    /\ emitted = <<>>
    /\ directions = <<>>
    /\ steps = 0
    /\ terminate_at \in Terminations
    /\ queue = <<>>
    /\ traces = <<>>
    /\ RestOff

\* place: the position is the start point, the direction the normalized field
\* sample there, the counters are reset and the callback gets the start point;
\* Stopped(OutOfBounds) when the field cannot be sampled there.
Place ==
    /\ pc = "new"
    /\ \E c \in {ComputeDirection(field, start)} :
       IF c.kind = "Panicked"
       THEN /\ result' = PanickedIn(c.cause)
            /\ pc' = "panicked"
            /\ UNCHANGED <<stepper, emitted, directions>>
       ELSE IF c.kind = "Stopped"
       THEN /\ result' = StoppedBy(c.cause)
            /\ pc' = "stopped"
            /\ UNCHANGED <<stepper, emitted, directions>>
       ELSE /\ stepper' = [stepper EXCEPT
                    !.position = start,
                    !.direction = c.direction,
                    !.distance = R(0),
                    !.step_size = stepper.config.initial_step_size,
                    !.error = stepper.config.initial_error,
                    !.n_sudden_reversals = 0]
            /\ emitted' = <<[kind |-> "placed", position |-> start, distance |-> R(0),
                             fraction |-> R(0), from |-> R(0), to |-> R(0)]>>
            /\ IF Callback(1) = "Terminate"
               THEN result' = StoppedBy("StoppedByCallback") /\ pc' = "stopped"
               ELSE result' = Ok /\ pc' = "ready"
            /\ directions' = <<c.direction>>
    /\ UNCHANGED <<swarmVars, restVars, field, start, dense, attempts, tried, before, steps,
                   terminate_at, queue, traces>>

\* The driver calls step or step_dense_output.
BeginStep ==
    /\ pc = "ready"
    /\ steps < MaxSteps
    /\ pc' = "stepping"
    /\ attempts' = 0
    /\ steps' = steps + 1
    /\ result' = NoResult
    /\ UNCHANGED <<swarmVars, restVars, field, start, dense, stepper, tried, before, emitted,
                   directions, terminate_at, queue, traces>>

\* The stepper state after accepting the attempt with the given error.
Accepted(s, attempt, errSq) ==
    [s EXCEPT
        !.previous_position = s.position,
        !.previous_direction = s.direction,
        !.previous_step_size = s.step_size,
        !.previous_step_displacement = attempt.step_displacement,
        !.previous_step_wrapped = attempt.step_wrapped,
        !.intermediate_directions = attempt.intermediate_directions,
        !.position = attempt.next_position,
        !.direction = attempt.next_direction,
        !.distance = RAdd(s.distance, s.step_size),
        !.error = errSq,
        !.step_size = ComputeStepSize(s, errSq),
        !.n_sudden_reversals =
            IF RLess(Dot(attempt.next_direction, s.direction), R(0))
            THEN s.n_sudden_reversals + 1 ELSE 0]

\* A dense output loop that drops the instruction the callback returns.
RECURSIVE DenseOutputIgnoresInstruction(_, _, _)
DenseOutputIgnoresInstruction(s, next, out) ==
    IF RLess(s.distance, next)
    THEN [next |-> next, out |-> out, panicked |-> FALSE, terminated |-> FALSE]
    ELSE Bind(RSub(s.distance, s.previous_step_size), LAMBDA previous_distance :
         Bind(RDiv(RSub(next, previous_distance), s.previous_step_size), LAMBDA fraction :
         Bind(InterpolateDensePosition(s, ComputeDenseInterpolationCoefs(s), fraction),
         LAMBDA p :
         IF p.panicked
         THEN [next |-> next, out |-> out, panicked |-> TRUE, terminated |-> FALSE]
         ELSE DenseOutputIgnoresInstruction(s, RAdd(next, s.config.dense_step_size),
                  Append(out, [kind |-> "dense", position |-> p.position,
                               distance |-> next, fraction |-> fraction,
                               from |-> previous_distance, to |-> s.distance])))))

\* The dense output of the accepted step: the points at the multiples of
\* dense_step_size up to the distance reached, from next_output_distance on,
\* each passed to the callback, until the callback returns Terminate.
RECURSIVE DenseOutput(_, _, _)
DenseOutput(s, next, out) ==
    IF RLess(s.distance, next)
    THEN [next |-> next, out |-> out, panicked |-> FALSE, terminated |-> FALSE]
    ELSE Bind(RSub(s.distance, s.previous_step_size), LAMBDA previous_distance :
         Bind(RDiv(RSub(next, previous_distance), s.previous_step_size), LAMBDA fraction :
         Bind(InterpolateDensePosition(s, ComputeDenseInterpolationCoefs(s), fraction),
         LAMBDA p :
         IF p.panicked
         THEN [next |-> next, out |-> out, panicked |-> TRUE, terminated |-> FALSE]
         ELSE
         Bind(Append(out, [kind |-> "dense", position |-> p.position,
                           distance |-> next, fraction |-> fraction,
                           from |-> previous_distance, to |-> s.distance]),
         LAMBDA delivered :
         IF Callback(Len(emitted) + Len(delivered)) = "Terminate"
         THEN [next |-> next, out |-> delivered, panicked |-> FALSE, terminated |-> TRUE]
         ELSE DenseOutput(s, RAdd(next, s.config.dense_step_size), delivered)))))

AcceptedPoint(s) ==
    [kind |-> "accepted", position |-> s.position, distance |-> s.distance,
     fraction |-> R(1), from |-> RSub(s.distance, s.previous_step_size), to |-> s.distance]

\* One pass of the loop of the step call in progress: an attempt, then
\*  - Stopped, when attempt_step stopped;
\*  - rejected (error above 1): only the step size is scaled, and the call
\*    gives up after max_step_attempts attempts;
\*  - accepted: the state advances, a run of sudden reversals of the
\*    configured length stops the trajectory, and otherwise the callback gets
\*    the dense output (step_dense_output) and the accepted point; Terminate
\*    from the callback stops the trajectory at once.
Attempt ==
    /\ pc = "stepping"
    /\ \E a \in {AttemptStep(stepper, field)} :
       /\ tried' = a
       /\ before' = stepper
       /\ IF a.kind = "Panicked"
          THEN /\ result' = PanickedIn(a.cause)
               /\ pc' = "panicked"
               /\ UNCHANGED <<stepper, attempts, emitted, directions>>
          ELSE IF a.kind = "Stopped"
          THEN /\ result' = StoppedBy(a.cause)
               /\ pc' = "stopped"
               /\ UNCHANGED <<stepper, attempts, emitted, directions>>
          ELSE \E errSq \in {ComputeErrorSq(stepper, a.attempt)} :
               IF RLess(R(1), errSq)
               THEN /\ attempts' = attempts + 1
                    /\ stepper' = [stepper EXCEPT
                                       !.step_size = ComputeStepSize(stepper, errSq)]
                    /\ IF attempts' >= stepper.config.max_step_attempts
                       THEN pc' = "stopped" /\ result' = StoppedBy("TooManyAttempts")
                       ELSE pc' = "stepping" /\ result' = NoResult
                    /\ UNCHANGED <<emitted, directions>>
               ELSE \E s \in {Accepted(stepper, a.attempt, errSq)} :
                    /\ directions' = Append(directions, s.direction)
                    /\ UNCHANGED attempts
                    /\ IF s.n_sudden_reversals >= s.config.sudden_reversals_for_sink
                       THEN /\ stepper' = s
                            /\ pc' = "stopped"
                            /\ result' = StoppedBy("Sink")
                            /\ UNCHANGED emitted
                       ELSE IF ~dense
                       THEN /\ stepper' = s
                            /\ emitted' = Append(emitted, AcceptedPoint(s))
                            /\ IF Callback(Len(emitted')) = "Terminate"
                               THEN /\ pc' = "stopped"
                                    /\ result' = StoppedBy("StoppedByCallback")
                               ELSE /\ pc' = "ready"
                                    /\ result' = Ok
                       ELSE \E out \in {DenseOutput(s, s.next_output_distance, <<>>)} :
                            IF out.panicked
                            THEN /\ stepper' = s
                                 /\ pc' = "panicked"
                                 /\ result' = PanickedIn("unwrap")
                                 /\ emitted' = emitted \o out.out
                            ELSE IF out.terminated
                            THEN /\ stepper' = [s EXCEPT !.next_output_distance = out.next]
                                 /\ pc' = "stopped"
                                 /\ result' = StoppedBy("StoppedByCallback")
                                 /\ emitted' = emitted \o out.out
                            ELSE /\ stepper' = [s EXCEPT !.next_output_distance = out.next]
                                 /\ emitted' = (emitted \o out.out) \o <<AcceptedPoint(s)>>
                                 /\ IF Callback(Len(emitted')) = "Terminate"
                                    THEN /\ pc' = "stopped"
                                         /\ result' = StoppedBy("StoppedByCallback")
                                    ELSE /\ pc' = "ready"
                                         /\ result' = Ok
    /\ UNCHANGED <<swarmVars, restVars, field, start, dense, steps, terminate_at, queue, traces>>

NextStep ==
    \/ Place
    \/ BeginStep
    \/ Attempt

SpecStep == InitStep /\ [][NextStep]_vars

(***************************************************************************)
(* One worker of FieldLineSet3::trace tracing several start positions, one *)
(* after the other, each with the stepper the factory produces for it.     *)
(***************************************************************************)

\* The configurations of the replayed traces: the lax tolerances and the
\* shorter dense step.
ReplayConfigs ==
    {config \in Configs :
        config.absolute_tolerance = Rat(1, 4) /\ config.dense_step_size = Rat(1, 4)}

\* The trace in hand and two more: a trace of another start position and a
\* second trace of the first one.
InitReplay ==
    /\ traceOf = [s \in Seeds |-> [some |-> FALSE, len |-> 1, extra |-> FALSE]]
    /\ pending = {}
    /\ running = [w \in Workers |-> Idle]
    /\ produced = Produce(0)
    /\ invocations = [s \in Seeds |-> <<>>]
    /\ local = [w \in Workers |-> EmptyProperties]
    /\ merged = {}
    /\ properties = EmptyProperties
    /\ field \in Fields
    /\ start \in Starts
    /\ dense \in BOOLEAN
    /\ stepper \in {NewStepper(config) : config \in ReplayConfigs}
    /\ pc = "new"
    /\ attempts = 0
    /\ tried = Stopped("", <<>>)
    /\ before = stepper
    /\ result = NoResult
    /\ emitted = <<>>
    /\ directions = <<>>
    /\ steps = 0
    /\ terminate_at = 0
    /\ queue \in {<<other, start>> : other \in Starts \ {start}}
    /\ traces = <<>>
    /\ RestOff

\* The trace in hand has returned, or has taken all the steps of the model.
TraceEnded == pc = "stopped" \/ (pc = "ready" /\ steps = MaxSteps)

\* The closure of filter_map for the next start position: the factory produces
\* a stepper, a new one unless it hands out one that exists already, and
\* tracer.trace starts on it.
NextTrace ==
    /\ TraceEnded
    /\ queue # <<>>
    /\ traces' = Append(traces, [start |-> start, emitted |-> emitted, result |-> result])
    /\ start' = Head(queue)
    /\ queue' = Tail(queue)
    /\ produced' = Produce(produced)
    /\ stepper' = IF produced' > produced THEN NewStepper(stepper.config) ELSE stepper
    /\ pc' = "new"
    /\ attempts' = 0
    /\ tried' = Stopped("", <<>>)
    /\ before' = stepper'
    /\ result' = NoResult
    /\ emitted' = <<>>
    /\ directions' = <<>>
    /\ steps' = 0
    /\ UNCHANGED <<traceOf, pending, running, invocations, local, merged, properties,
                   restVars, field, dense, terminate_at>>

NextReplay ==
    \/ Place
    \/ BeginStep
    \/ Attempt
    \/ NextTrace

SpecReplay == InitReplay /\ [][NextReplay]_vars

(***************************************************************************)
(* The command line of the rkf_stepper subcommand: clap's parse of the     *)
(* options, construct_rkf_stepper_config_from_options and                  *)
(* RKF23Stepper3::new.                                                     *)
(*                                                                         *)
(* Option values are strings. The fields of a record of option values are  *)
(* named after the options with _ for -: dense_step_length is the option   *)
(* named "dense-step-length". "-" stands for an option that is not given.  *)
(***************************************************************************)

\* No tracing goes on while the command line is processed.
TracingOff ==
    /\ traceOf = [s \in Seeds |-> [some |-> FALSE, len |-> 1, extra |-> FALSE]]
    /\ pending = {}
    /\ running = [w \in Workers |-> Idle]
    /\ produced = 0
    /\ invocations = [s \in Seeds |-> <<>>]
    /\ local = [w \in Workers |-> EmptyProperties]
    /\ merged = {}
    /\ properties = EmptyProperties
    /\ field = <<>> /\ start = <<>> /\ dense = FALSE /\ stepper = <<>>
    /\ pc = "off" /\ attempts = 0 /\ tried = <<>> /\ before = <<>>
    /\ result = <<>> /\ emitted = <<>> /\ directions = <<>> /\ steps = 0
    /\ terminate_at = 0 /\ queue = <<>> /\ traces = <<>>

\* default_value of each option.
DefaultValues ==
    [dense_step_length |-> "0.01",
     max_step_attempts |-> "16",
     stepping_absolute_tolerance |-> "1e-6",
     stepping_relative_tolerance |-> "1e-6",
     stepping_safety_factor |-> "0.9",
     min_step_scale |-> "0.2",
     max_step_scale |-> "10.0",
     stepping_initial_error |-> "1e-4",
     initial_step_length |-> "1e-4",
     sudden_reversals_for_sink |-> "3",
     stepping_scheme |-> "rkf45"]

\* possible_values of the stepping-scheme option.
SchemePossibleValues == <<"rkf23", "rkf45">>

\* The command lines of the model.
CommandLines ==
    [dense_step_length : {"-", "0", "nan"},
     max_step_attempts : {"-", "0", "1.5"},
     stepping_absolute_tolerance : {"-", "-1"},
     stepping_relative_tolerance : {"-", "0"},
     stepping_safety_factor : {"-", "abc"},
     min_step_scale : {"-", "1", "0"},
     max_step_scale : {"-", "1", "0.2"},
     stepping_initial_error : {"-", "0"},
     initial_step_length : {"-", "-1"},
     sudden_reversals_for_sink : {"-", "0"},
     disable_pi_control : BOOLEAN,
     stepping_scheme : {"-", "rkf23", "rkf45", "peaked", "euler"}]

\* The value clap reports for an option: the one given or the default.
ValueOf(given, default) == IF given = "-" THEN default ELSE given

\* App::get_matches on the options of add_rkf_stepper_options_to_subcommand:
\* a value outside possible_values is an error and the program exits.
Matches(cl) ==
    [accepted |-> cl.stepping_scheme \in Range(SchemePossibleValues) \cup {"-"},
     dense_step_length |-> ValueOf(cl.dense_step_length, DefaultValues.dense_step_length),
     max_step_attempts |-> ValueOf(cl.max_step_attempts, DefaultValues.max_step_attempts),
     stepping_absolute_tolerance |->
        ValueOf(cl.stepping_absolute_tolerance, DefaultValues.stepping_absolute_tolerance),
     stepping_relative_tolerance |->
        ValueOf(cl.stepping_relative_tolerance, DefaultValues.stepping_relative_tolerance),
     stepping_safety_factor |->
        ValueOf(cl.stepping_safety_factor, DefaultValues.stepping_safety_factor),
     min_step_scale |-> ValueOf(cl.min_step_scale, DefaultValues.min_step_scale),
     max_step_scale |-> ValueOf(cl.max_step_scale, DefaultValues.max_step_scale),
     stepping_initial_error |->
        ValueOf(cl.stepping_initial_error, DefaultValues.stepping_initial_error),
     initial_step_length |->
        ValueOf(cl.initial_step_length, DefaultValues.initial_step_length),
     sudden_reversals_for_sink |->
        ValueOf(cl.sudden_reversals_for_sink, DefaultValues.sudden_reversals_for_sink),
     disable_pi_control |-> cl.disable_pi_control,
     stepping_scheme |-> ValueOf(cl.stepping_scheme, DefaultValues.stepping_scheme)]

\* The float that is not a number: no comparison with it holds.
NaN == <<0, 0>>

\* str::parse of a float: the value, or an error for a string that is no
\* float literal.
ParseFloat(value_string) ==
    CASE value_string = "0.01" -> [ok |-> TRUE, value |-> Rat(1, 100)]
      [] value_string = "1e-6" -> [ok |-> TRUE, value |-> Rat(1, 1000000)]
      [] value_string = "1e-4" -> [ok |-> TRUE, value |-> Rat(1, 10000)]
      [] value_string = "0.9" -> [ok |-> TRUE, value |-> Rat(9, 10)]
      [] value_string = "0.2" -> [ok |-> TRUE, value |-> Rat(1, 5)]
      [] value_string = "10.0" -> [ok |-> TRUE, value |-> R(10)]
      [] value_string = "1" -> [ok |-> TRUE, value |-> R(1)]
      [] value_string = "0" -> [ok |-> TRUE, value |-> R(0)]
      [] value_string = "-1" -> [ok |-> TRUE, value |-> R(-1)]
      [] value_string = "nan" -> [ok |-> TRUE, value |-> NaN]
      [] OTHER -> [ok |-> FALSE, value |-> R(0)]

\* str::parse of an unsigned integer: a sign or a fraction is an error.
ParseUnsigned(value_string) ==
    CASE value_string = "16" -> [ok |-> TRUE, value |-> 16]
      [] value_string = "3" -> [ok |-> TRUE, value |-> 3]
      [] value_string = "1" -> [ok |-> TRUE, value |-> 1]
      [] value_string = "0" -> [ok |-> TRUE, value |-> 0]
      [] OTHER -> [ok |-> FALSE, value |-> 0]

\* The variants of RKFStepperType, in the order the lookup lists them.
StepperTypes == <<"RKF23", "RKF45">>

\* The strings the stepping scheme is looked up among.
SchemeStrs == <<"peaked", "isotropic">>

\* get_value_from_required_constrained_argument: the value paired with the
\* first string equal to the argument's, a panic when there is none.
RECURSIVE ConstrainedValue(_, _, _)
ConstrainedValue(value_str, possible_value_strs, possible_values) ==
    IF possible_value_strs = <<>> \/ possible_values = <<>>
    THEN [ok |-> FALSE, value |-> ""]
    ELSE IF Head(possible_value_strs) = value_str
    THEN [ok |-> TRUE, value |-> Head(possible_values)]
    ELSE ConstrainedValue(value_str, Tail(possible_value_strs), Tail(possible_values))

\* The numeric options all parse.
Parseable(a) ==
    /\ ParseFloat(a.dense_step_length).ok
    /\ ParseUnsigned(a.max_step_attempts).ok
    /\ ParseFloat(a.stepping_absolute_tolerance).ok
    /\ ParseFloat(a.stepping_relative_tolerance).ok
    /\ ParseFloat(a.stepping_safety_factor).ok
    /\ ParseFloat(a.min_step_scale).ok
    /\ ParseFloat(a.max_step_scale).ok
    /\ ParseFloat(a.stepping_initial_error).ok
    /\ ParseFloat(a.initial_step_length).ok
    /\ ParseUnsigned(a.sudden_reversals_for_sink).ok

\* The RKFStepperConfig built from the parsed options (rkf23.rs reads
\* dense_step_length and initial_step_length as dense_step_size and
\* initial_step_size).
ConfigOf(a) ==
    [dense_step_size |-> ParseFloat(a.dense_step_length).value,
     max_step_attempts |-> ParseUnsigned(a.max_step_attempts).value,
     absolute_tolerance |-> ParseFloat(a.stepping_absolute_tolerance).value,
     relative_tolerance |-> ParseFloat(a.stepping_relative_tolerance).value,
     safety_factor |-> ParseFloat(a.stepping_safety_factor).value,
     min_step_scale |-> ParseFloat(a.min_step_scale).value,
     max_step_scale |-> ParseFloat(a.max_step_scale).value,
     initial_error |-> ParseFloat(a.stepping_initial_error).value,
     initial_step_size |-> ParseFloat(a.initial_step_length).value,
     sudden_reversals_for_sink |-> ParseUnsigned(a.sudden_reversals_for_sink).value,
     use_pi_control |-> ~a.disable_pi_control]

InitCli ==
    /\ TracingOff
    /\ command_line \in CommandLines
    /\ arguments = <<>>
    /\ cli_pc = "start"
    /\ constructed = <<>>
    /\ built = <<>>
    /\ SimOff
    /\ WriteOff
    /\ MoreOff

\* clap parses the command line.
GetMatches ==
    /\ cli_pc = "start"
    /\ \E m \in {Matches(command_line)} :
          IF m.accepted
          THEN arguments' = m /\ cli_pc' = "matched"
          ELSE arguments' = <<>> /\ cli_pc' = "rejected"
    /\ UNCHANGED <<swarmVars, stepVars, simVars, writeVars, moreVars, command_line, constructed, built>>

\* construct_rkf_stepper_config_from_options: the numeric options are
\* parsed, then the stepping scheme is looked up; either may panic.
ConstructRkfStepperConfigFromOptions ==
    /\ cli_pc = "matched"
    /\ IF ~Parseable(arguments)
       THEN cli_pc' = "panicked: Could not parse value" /\ constructed' = <<>>
       ELSE \E stepper_type \in {ConstrainedValue(arguments.stepping_scheme,
                                                   SchemeStrs, StepperTypes)} :
               IF ~stepper_type.ok
               THEN cli_pc' = "panicked: Invalid stepping-scheme" /\ constructed' = <<>>
               ELSE /\ cli_pc' = "constructed"
                    /\ constructed' = [stepper_type |-> stepper_type.value,
                                       config |-> ConfigOf(arguments)]
    /\ UNCHANGED <<swarmVars, stepVars, simVars, writeVars, moreVars, command_line, arguments, built>>

NextCli ==
    \/ GetMatches
    \/ ConstructRkfStepperConfigFromOptions

SpecCli == InitCli /\ [][NextCli]_vars

(***************************************************************************)
(* RKF23Stepper3::new on the configurations the option values parse to.    *)
(***************************************************************************)

\* The configurations that the values of accepted command lines parse to.
ParsedConfigs ==
    {ConfigOf(Matches(cl)) :
        cl \in {c \in CommandLines : Matches(c).accepted /\ Parseable(Matches(c))}}

\* A float above zero (which NaN is not).
Positive(x) == x # NaN /\ RLess(R(0), x)

\* RKFStepperConfig::validate: every numeric bound is strictly positive,
\* min_step_scale < 1 < max_step_scale and max_step_attempts >= 1.
Validate(config) ==
    /\ Positive(config.dense_step_size)
    /\ config.max_step_attempts >= 1
    /\ Positive(config.absolute_tolerance)
    /\ Positive(config.relative_tolerance)
    /\ Positive(config.safety_factor)
    /\ Positive(config.min_step_scale)
    /\ config.max_step_scale # NaN
    /\ RLess(config.min_step_scale, R(1))
    /\ RLess(R(1), config.max_step_scale)
    /\ Positive(config.initial_error)
    /\ Positive(config.initial_step_size)
    /\ config.sudden_reversals_for_sink > 0

InitNew ==
    /\ TracingOff
    /\ command_line = <<>>
    /\ arguments = <<>>
    /\ cli_pc = "config"
    /\ constructed \in [stepper_type : {"RKF23"}, config : ParsedConfigs]
    /\ built = <<>>
    /\ SimOff
    /\ WriteOff
    /\ MoreOff

\* A new that builds the state without validating the configuration.
NewUnvalidated ==
    /\ cli_pc = "config"
    /\ built' = NewStepper(constructed.config)
    /\ cli_pc' = "built"
    /\ UNCHANGED <<swarmVars, stepVars, simVars, writeVars, moreVars, command_line, arguments, constructed>>

\* RKF23Stepper3::new: config.validate() aborts on an invalid configuration
\* before any state is built.
New ==
    /\ cli_pc = "config"
    /\ IF Validate(constructed.config)
       THEN built' = NewStepper(constructed.config) /\ cli_pc' = "built"
       ELSE built' = <<>> /\ cli_pc' = "aborted: invalid configuration"
    /\ UNCHANGED <<swarmVars, stepVars, simVars, writeVars, moreVars, command_line, arguments, constructed>>

SpecNew == InitNew /\ [][New]_vars

(***************************************************************************)
(* The simulate pipeline of cli/ebeam/simulate.rs from                     *)
(* run_with_selected_interpolator on: the stages in the order of the code, *)
(* each of which succeeds or ends the program, and the content of the      *)
(* output paths.                                                           *)
(***************************************************************************)

\* The stages that can fail, in the order the code reaches them.
Stages ==
    <<"verify_grid", "select_stepper", "create_atomic_output_file",
      "check_if_write_allowed", "extra_output_file", "simulate", "extract",
      "save", "close_atomic_output_file", "close_extra_output_file">>

\* The output types (H5Part has a second output file).
OutputTypes == {"Fl", "H5Part"}

\* The runs of the model: the stage that fails (none for "-"), the output
\* type, whether the target path holds a file already, whether the
\* rkf_stepper subcommand is given and whether --extra-* options are.
RunInputs ==
    [fails_at : Range(Stages) \cup {"-"},
     output_type : OutputTypes,
     target_exists : BOOLEAN,
     rkf_stepper : BOOLEAN,
     extra_quantities : BOOLEAN,
     save_wrote : {"nothing", "part"}]

\* What a path holds before the run.
Before(exists) == IF exists THEN "old" ELSE "absent"

InitSimulate ==
    /\ TracingOff
    /\ CliOff
    /\ WriteOff
    /\ MoreOff
    /\ run_input \in RunInputs
    /\ sim_pc = "verify_grid"
    /\ done = <<>>
    /\ files = [target |-> Before(run_input.target_exists),
                temporary |-> "absent",
                extra_target |-> Before(run_input.target_exists),
                extra_temporary |-> "absent"]

\* The stage succeeds and the pipeline goes on with the stage named.
Succeeds(stage, next) ==
    /\ sim_pc' = next
    /\ done' = Append(done, stage)

\* exit_on_error! (or a panic) ends the program in the stage.
Exits(stage) ==
    /\ sim_pc' = "exited"
    /\ UNCHANGED done

\* run_with_selected_interpolator: interpolator.verify_grid(snapshot.grid()).
VerifyGrid ==
    /\ sim_pc = "verify_grid"
    /\ IF run_input.fails_at = "verify_grid"
       THEN Exits("verify_grid")
       ELSE Succeeds("verify_grid", "select_stepper")
    /\ UNCHANGED <<swarmVars, stepVars, cliVars, writeVars, moreVars, run_input, files>>

\* run_with_selected_stepper up to the output path: the stepper type and
\* configuration, from construct_rkf_stepper_config_from_options when the
\* rkf_stepper subcommand is given, and the path of the output file.
SelectStepper ==
    /\ sim_pc = "select_stepper"
    /\ IF \/ run_input.fails_at = "select_stepper"
          \/ /\ run_input.rkf_stepper
             /\ ~ConstrainedValue(DefaultValues.stepping_scheme, SchemeStrs, StepperTypes).ok
       THEN Exits("select_stepper")
       ELSE Succeeds("select_stepper", "create_atomic_output_file")
    /\ UNCHANGED <<swarmVars, stepVars, cliVars, writeVars, moreVars, run_input, files>>

\* io_context.create_atomic_output_file(output_file_path): a temporary path
\* for the target path.
CreateAtomicOutputFile ==
    /\ sim_pc = "create_atomic_output_file"
    /\ IF run_input.fails_at = "create_atomic_output_file"
       THEN Exits("create_atomic_output_file")
       ELSE Succeeds("create_atomic_output_file", "check_if_write_allowed")
    /\ UNCHANGED <<swarmVars, stepVars, cliVars, writeVars, moreVars, run_input, files>>

\* atomic_output_file.check_if_write_allowed: the pipeline returns when the
\* target may not be written.
CheckIfWriteAllowed ==
    /\ sim_pc = "check_if_write_allowed"
    /\ IF run_input.fails_at = "check_if_write_allowed"
       THEN sim_pc' = "returned" /\ UNCHANGED done
       ELSE Succeeds("check_if_write_allowed",
                     IF run_input.output_type = "H5Part"
                     THEN "extra_output_file" ELSE "simulate")
    /\ UNCHANGED <<swarmVars, stepVars, cliVars, writeVars, moreVars, run_input, files>>

\* The second output file of H5Part: created and checked like the first.
ExtraOutputFile ==
    /\ sim_pc = "extra_output_file"
    /\ IF run_input.fails_at = "extra_output_file"
       THEN Exits("extra_output_file")
       ELSE Succeeds("extra_output_file", "simulate")
    /\ UNCHANGED <<swarmVars, stepVars, cliVars, writeVars, moreVars, run_input, files>>

\* The stepper is built and the beams are generated; a panic of either ends
\* the program.
Simulate ==
    /\ sim_pc = "simulate"
    /\ IF run_input.fails_at = "simulate"
       THEN Exits("simulate")
       ELSE Succeeds("simulate", IF run_input.extra_quantities THEN "extract" ELSE "save")
    /\ UNCHANGED <<swarmVars, stepVars, cliVars, writeVars, moreVars, run_input, files>>

\* perform_post_simulation_actions: the quantities of the --extra-* options
\* are read from the snapshot and extracted.
Extract ==
    /\ sim_pc = "extract"
    /\ IF run_input.fails_at = "extract"
       THEN Exits("extract")
       ELSE Succeeds("extract", "save")
    /\ UNCHANGED <<swarmVars, stepVars, cliVars, writeVars, moreVars, run_input, files>>

\* A save to the target paths themselves.
SavedIntoTarget(f, extra, content) ==
    [f EXCEPT !.target = content,
              !.extra_target = IF extra THEN content ELSE @]

\* What the temporary paths hold after the beams are saved; a save that
\* fails may have written a part.
Saved(f, extra, content) ==
    [f EXCEPT !.temporary = content,
              !.extra_temporary = IF extra THEN content ELSE @]

\* perform_post_simulation_actions: the beams are saved to
\* atomic_output_file.temporary_path() (and the extra one's for H5Part).
Save ==
    /\ sim_pc = "save"
    /\ IF run_input.fails_at = "save"
       THEN /\ Exits("save")
            /\ files' = IF run_input.save_wrote = "part"
                         THEN Saved(files, run_input.output_type = "H5Part", "part")
                         ELSE files
       ELSE /\ Succeeds("save", "close_atomic_output_file")
            /\ files' = Saved(files, run_input.output_type = "H5Part", "new")
    /\ UNCHANGED <<swarmVars, stepVars, cliVars, writeVars, moreVars, run_input>>

\* io_context.close_atomic_output_file(atomic_output_file): the temporary
\* file is moved to the target path.
CloseAtomicOutputFile ==
    /\ sim_pc = "close_atomic_output_file"
    /\ IF run_input.fails_at = "close_atomic_output_file"
       THEN Exits("close_atomic_output_file") /\ UNCHANGED files
       ELSE /\ Succeeds("close_atomic_output_file",
                        IF run_input.output_type = "H5Part"
                        THEN "close_extra_output_file" ELSE "finished")
            /\ files' = [files EXCEPT !.target = files.temporary,
                                      !.temporary = "absent"]
    /\ UNCHANGED <<swarmVars, stepVars, cliVars, writeVars, moreVars, run_input>>

\* io_context.close_atomic_output_file(extra_atomic_output_file).
CloseExtraOutputFile ==
    /\ sim_pc = "close_extra_output_file"
    /\ IF run_input.fails_at = "close_extra_output_file"
       THEN Exits("close_extra_output_file") /\ UNCHANGED files
       ELSE /\ Succeeds("close_extra_output_file", "finished")
            /\ files' = [files EXCEPT !.extra_target = files.extra_temporary,
                                      !.extra_temporary = "absent"]
    /\ UNCHANGED <<swarmVars, stepVars, cliVars, writeVars, moreVars, run_input>>

NextSimulate ==
    \/ VerifyGrid
    \/ SelectStepper
    \/ CreateAtomicOutputFile
    \/ CheckIfWriteAllowed
    \/ ExtraOutputFile
    \/ Simulate
    \/ Extract
    \/ Save
    \/ CloseAtomicOutputFile
    \/ CloseExtraOutputFile

SpecSimulate == InitSimulate /\ [][NextSimulate]_vars

(***************************************************************************)
(* write_field_line_data_as_custom_binary.                                 *)
(*                                                                         *)
(* A map of the properties is the sequence of its (name, values) entries   *)
(* in the order the map iterates. A scalar value is a tag                  *)
(* <<name, line, point, component>> that tells where it belongs; a Vec3 is *)
(* the triple of its component tags.                                       *)
(***************************************************************************)

\* Bounds of the properties of the model.
MaxLines == 2
MaxLineLength == 2

\* The lengths of the field lines of a properties value.
LineLengths ==
    UNION {[1..n -> 0..MaxLineLength] : n \in 0..MaxLines}

Scalar(name, line, point) == <<name, line, point, 0>>
Vector(name, line, point) ==
    <<<<name, line, point, 1>>, <<name, line, point, 2>>, <<name, line, point, 3>>>>

\* The FieldLineSetProperties3 of an input of the model: the given line
\* lengths and the given names in the iteration order of each map;
\* number_of_field_lines may overstate the number of lines held.
Properties(input) ==
    [number_of_field_lines |-> Len(input.lengths) + (IF input.overstated THEN 1 ELSE 0),
     fixed_scalar_values |->
        [q \in 1..Len(input.fixed_scalars) |->
            [name |-> input.fixed_scalars[q],
             values |-> [i \in 1..Len(input.lengths) |-> Scalar(input.fixed_scalars[q], i, 0)]]],
     fixed_vector_values |->
        [q \in 1..Len(input.fixed_vectors) |->
            [name |-> input.fixed_vectors[q],
             values |-> [i \in 1..Len(input.lengths) |-> Vector(input.fixed_vectors[q], i, 0)]]],
     varying_scalar_values |->
        [q \in 1..Len(input.varying_scalars) |->
            [name |-> input.varying_scalars[q],
             values |-> [i \in 1..Len(input.lengths) |->
                            [k \in 1..input.lengths[i] |-> Scalar(input.varying_scalars[q], i, k)]]]],
     varying_vector_values |->
        [q \in 1..Len(input.varying_vectors) |->
            [name |-> input.varying_vectors[q],
             values |-> [i \in 1..Len(input.lengths) |->
                            [k \in 1..input.lengths[i] |-> Vector(input.varying_vectors[q], i, k)]]]]]

\* The calls of the writer in the model.
WriteInputs ==
    [lengths : LineLengths,
     fixed_scalars : {<<>>, <<"x0", "y0">>, <<"y0", "x0">>},
     fixed_vectors : {<<>>, <<"v0">>},
     varying_scalars : {<<>>, <<"x">>, <<"x", "s">>, <<"s", "x">>},
     varying_vectors : {<<>>, <<"e", "b">>},
     overstated : BOOLEAN,
     float_size : {4, 8}]

\* The concatenation of the sequences of a sequence.
RECURSIVE Flat(_)
Flat(seqs) == IF seqs = <<>> THEN <<>> ELSE Head(seqs) \o Flat(Tail(seqs))

\* Lengths of the sequences of a sequence.
Lens(seqs) == [i \in 1..Len(seqs) |-> Len(seqs[i])]

\* iter().scan(0, ...): for each line the sum of the lengths before it.
StartIndices(values) ==
    [i \in 1..Len(values) |-> SeqSum(SubSeq(Lens(values), 1, i - 1))]

\* (number_of_field_line_elements, start_indices_of_field_line_elements):
\* from the first varying scalar quantity, else from the first varying
\* vector quantity, else (0, empty).
Elements(p) ==
    IF p.varying_scalar_values = <<>>
    THEN IF p.varying_vector_values = <<>>
         THEN [number |-> 0, start_indices |-> <<>>]
         ELSE [number |-> SeqSum(Lens(p.varying_vector_values[1].values)),
               start_indices |-> StartIndices(p.varying_vector_values[1].values)]
    ELSE [number |-> SeqSum(Lens(p.varying_scalar_values[1].values)),
          start_indices |-> StartIndices(p.varying_scalar_values[1].values)]

\* The names a set_*_variables closure pushes, in the order of its loop.
NamesOf(map) == [q \in 1..Len(map) |-> map[q].name]

\* The flat values the set_*_variables closures collect in the same loops.
FlatFixedScalars(map) == Flat([q \in 1..Len(map) |-> map[q].values])
FlatFixedVectors(map) == Flat([q \in 1..Len(map) |-> Flat(map[q].values)])
FlatVaryingScalars(map) == Flat([q \in 1..Len(map) |-> Flat(map[q].values)])
FlatVaryingVectors(map) ==
    Flat([q \in 1..Len(map) |->
            Flat([i \in 1..Len(map[q].values) |-> Flat(map[q].values[i])])])

\* Names with the varying groups before the fixed ones.
NamesVaryingFirst(p) ==
    NamesOf(p.varying_scalar_values) \o NamesOf(p.varying_vector_values)
        \o NamesOf(p.fixed_scalar_values) \o NamesOf(p.fixed_vector_values)

\* names: the names of the four groups, fixed scalar, fixed vector, varying
\* scalar, varying vector.
Names(p) ==
    NamesOf(p.fixed_scalar_values) \o NamesOf(p.fixed_vector_values)
        \o NamesOf(p.varying_scalar_values) \o NamesOf(p.varying_vector_values)

\* Number of bytes of a name of the model.
NameLength(name) == IF name \in {"x0", "y0", "v0"} THEN 2 ELSE 1

\* names.join("\n") with a final newline: its length in bytes.
NamesLength(names) ==
    IF names = <<>> THEN 1
    ELSE SeqSum([q \in 1..Len(names) |-> NameLength(names[q]) + 1])

\* names.join("\n"): the names with a newline between each two of them.
RECURSIVE Join(_)
Join(names) ==
    IF names = <<>> THEN <<>>
    ELSE IF Len(names) = 1 THEN names
    ELSE <<Head(names), "newline">> \o Join(Tail(names))

\* names.join("\n") followed by names.push('\n'): the text of the Names
\* block, as its names and newlines in order.
NamesText(names) == Append(Join(names), "newline")

\* mem::size_of::<u64>()
U64Size == 8

\* Only the size of the header.
SectionSizesHeaderOnly(p, float_size) == <<7 * U64Size>>

\* section_sizes
SectionSizes(p, float_size) ==
    <<7 * U64Size,
      6 * float_size,
      NamesLength(Names(p)),
      p.number_of_field_lines * U64Size,
      Len(p.fixed_scalar_values) * p.number_of_field_lines * float_size,
      Len(p.fixed_vector_values) * p.number_of_field_lines * 3 * float_size,
      Len(p.varying_scalar_values) * Elements(p).number * float_size,
      Len(p.varying_vector_values) * Elements(p).number * 3 * float_size>>

RECURSIVE SeqMax(_)
SeqMax(seq) ==
    IF Len(seq) = 1 THEN Head(seq)
    ELSE IF Head(seq) >= SeqMax(Tail(seq)) THEN Head(seq) ELSE SeqMax(Tail(seq))

\* A section handed to the writer.
Section(name, items, item_size, buffered) ==
    [section |-> name, items |-> items, bytes |-> Len(items) * item_size,
     buffered |-> buffered]

\* The section, or nothing when the condition of its if does not hold.
When(condition, section) == IF condition THEN <<section>> ELSE <<>>

\* The sections in the order of the write_all and write! calls.
Sections(p, float_size) ==
    <<Section("header",
              <<float_size, p.number_of_field_lines, Elements(p).number,
                Len(p.fixed_scalar_values), Len(p.fixed_vector_values),
                Len(p.varying_scalar_values), Len(p.varying_vector_values)>>,
              U64Size, TRUE),
      Section("bounds", <<"lx", "ux", "ly", "uy", "lz", "uz">>, float_size, TRUE),
      [section |-> "names", items |-> Names(p), bytes |-> NamesLength(Names(p)),
       buffered |-> FALSE, text |-> NamesText(Names(p))]>>
    \o When(Elements(p).number > 0,
            Section("offsets", Elements(p).start_indices, U64Size, TRUE))
    \o When(Len(p.fixed_scalar_values) > 0,
            Section("fixed_scalar", FlatFixedScalars(p.fixed_scalar_values),
                    float_size, TRUE))
    \o When(Len(p.fixed_vector_values) > 0,
            Section("fixed_vector", FlatFixedVectors(p.fixed_vector_values),
                    float_size, TRUE))
    \o When(Len(p.varying_scalar_values) > 0,
            Section("varying_scalar", FlatVaryingScalars(p.varying_scalar_values),
                    float_size, TRUE))
    \o When(Len(p.varying_vector_values) > 0,
            Section("varying_vector", FlatVaryingVectors(p.varying_vector_values),
                    float_size, TRUE))

InitWrite ==
    /\ TracingOff
    /\ CliOff
    /\ SimOff
    /\ MoreOff
    /\ \E input \in WriteInputs :
          to_write = [properties |-> Properties(input),
                      lengths |-> input.lengths,
                      overstated |-> input.overstated,
                      float_size |-> input.float_size]
    /\ write_pc = "start"
    /\ written = <<>>

\* write_field_line_data_as_custom_binary on a writer that takes everything.
WriteFieldLineDataAsCustomBinary ==
    /\ write_pc = "start"
    /\ written' = [sections |-> Sections(to_write.properties, to_write.float_size),
                   byte_buffer_size |->
                       SeqMax(SectionSizes(to_write.properties, to_write.float_size))]
    /\ write_pc' = "done"
    /\ UNCHANGED <<swarmVars, stepVars, cliVars, simVars, moreVars, to_write>>

SpecWrite == InitWrite /\ [][WriteFieldLineDataAsCustomBinary]_vars

(***************************************************************************)
(* save_field_line_data_as_h5part: the datasets of the group Step#0 of the *)
(* trajectory file and of the seed file. A file is the sequence of its     *)
(* datasets in the order of creation, <<>> for a file without datasets,    *)
(* and a dataset is its name with its data.                                *)
(***************************************************************************)

\* The calls of the H5Part writer in the model: line lengths, the names of
\* the scalar maps in iteration order, and drop_id.
H5PartInputs ==
    [lengths : LineLengths,
     fixed_scalars : {<<>>, <<"x0">>, <<"x0", "r">>, <<"r", "x0">>, <<"rho", "r">>},
     fixed_vectors : {<<>>},
     varying_scalars : {<<>>, <<"x">>, <<"x", "r">>, <<"r", "x">>, <<"r", "rho">>},
     varying_vectors : {<<>>},
     overstated : {FALSE},
     drop_id : BOOLEAN]

\* `r` is reserved for radial distance.
DatasetName(name) == IF name = "r" THEN "rho" ELSE name

\* The name of a dataset as it is in the map.
OwnName(name) == name

\* new_dataset_builder().with_data(data).create(name) on a group with the
\* given datasets: an error when the group has a dataset of that name.
CreateDataset(group, name, data) ==
    IF \E q \in 1..Len(group.datasets) : group.datasets[q].name = name
    THEN [group EXCEPT !.ok = FALSE]
    ELSE [group EXCEPT !.datasets = Append(@, [name |-> name, data |-> data])]

\* The loop over varying_scalar_values: the values of each quantity are
\* concatenated and created under its name, r under rho; ? leaves at the
\* first error.
RECURSIVE CreateVaryingDatasets(_, _)
CreateVaryingDatasets(group, map) ==
    IF map = <<>> \/ ~group.ok THEN group
    ELSE CreateVaryingDatasets(
            CreateDataset(group, DatasetName(Head(map).name), Flat(Head(map).values)),
            Tail(map))

\* The loop over fixed_scalar_values: each quantity is created under its
\* name as it is.
RECURSIVE CreateFixedDatasets(_, _)
CreateFixedDatasets(group, map) ==
    IF map = <<>> \/ ~group.ok THEN group
    ELSE CreateFixedDatasets(
            CreateDataset(group, OwnName(Head(map).name), Head(map).values),
            Tail(map))

\* The dataset id, unless drop_id is set or an earlier create failed.
WithId(group, drop_id, n) ==
    IF drop_id \/ ~group.ok THEN group
    ELSE CreateDataset(group, "id", [i \in 1..n |-> i - 1])

\* A new file with the group Step#0.
NewGroup == [ok |-> TRUE, datasets |-> <<>>]

\* No file.
NoFile == [ok |-> TRUE, datasets |-> <<>>, created |-> FALSE]

\* The file of a group.
FileOf(group) == [ok |-> group.ok, datasets |-> group.datasets, created |-> TRUE]

\* The trajectory file: created when there is a varying scalar quantity,
\* with datasets when there are elements.
TrajectoryFile(p, drop_id) ==
    IF Len(p.varying_scalar_values) = 0 THEN NoFile
    ELSE IF SeqSum(Lens(p.varying_scalar_values[1].values)) = 0 THEN FileOf(NewGroup)
    ELSE FileOf(WithId(CreateVaryingDatasets(NewGroup, p.varying_scalar_values), drop_id,
                       SeqSum(Lens(p.varying_scalar_values[1].values))))

\* The seed file: created when there is a fixed scalar quantity.
SeedFile(p, drop_id) ==
    IF Len(p.fixed_scalar_values) = 0 THEN NoFile
    ELSE FileOf(WithId(CreateFixedDatasets(NewGroup, p.fixed_scalar_values), drop_id,
                       p.number_of_field_lines))

\* save_field_line_data_as_h5part: nothing is written without lines or
\* without scalar quantities; an error in the trajectory file returns before
\* the seed file is created.
SaveFieldLineDataAsH5Part(p, drop_id) ==
    IF \/ p.number_of_field_lines = 0
       \/ Len(p.fixed_scalar_values) = 0 /\ Len(p.varying_scalar_values) = 0
    THEN [result |-> "Ok", trajectory |-> NoFile, seed |-> NoFile]
    ELSE IF ~TrajectoryFile(p, drop_id).ok
    THEN [result |-> "Err", trajectory |-> TrajectoryFile(p, drop_id), seed |-> NoFile]
    ELSE [result |-> IF SeedFile(p, drop_id).ok THEN "Ok" ELSE "Err",
          trajectory |-> TrajectoryFile(p, drop_id),
          seed |-> SeedFile(p, drop_id)]

InitH5Part ==
    /\ TracingOff
    /\ CliOff
    /\ SimOff
    /\ MoreOff
    /\ \E input \in H5PartInputs :
          to_write = [properties |-> Properties(input),
                      lengths |-> input.lengths,
                      drop_id |-> input.drop_id]
    /\ write_pc = "start"
    /\ written = <<>>

SaveH5Part ==
    /\ write_pc = "start"
    /\ written' = SaveFieldLineDataAsH5Part(to_write.properties, to_write.drop_id)
    /\ write_pc' = "done"
    /\ UNCHANGED <<swarmVars, stepVars, cliVars, simVars, moreVars, to_write>>

SpecH5Part == InitH5Part /\ [][SaveH5Part]_vars

(***************************************************************************)
(* Cork tracing over a range of snapshots: run_tracing of                  *)
(* cli/snapshot/corks.rs is called once for each snapshot of the range,    *)
(* with the corks state kept between the calls.                            *)
(***************************************************************************)

\* The largest final offset of a snapshot range in the model.
MaxFinalOffset == 3

\* The runs of the model: whether --snap-range is given and its final
\* offset, whether the output path may be written and exists, the offset at
\* which initializing or advecting the corks fails (-1 for none), and whether
\* saving the corks succeeds.
CorkInputs ==
    {input \in [has_range : BOOLEAN,
                final_offset : 0..MaxFinalOffset,
                write_allowed : BOOLEAN,
                target_exists : BOOLEAN,
                fails_at : -1..MaxFinalOffset,
                save_succeeds : BOOLEAN] :
        input.has_range \/ input.final_offset = 0}

InitCorks ==
    /\ TracingOff
    /\ CliOff
    /\ SimOff
    /\ WriteOff
    /\ ModeOff
    /\ ExtractOff
    /\ FtrOff
    /\ cork_input \in CorkInputs
    /\ corks_state = "None"
    /\ current_offset = 0
    /\ cork_pc = "running"
    /\ cork_trace = <<>>
    /\ cached_fields = FALSE
    /\ cork_output = Before(cork_input.target_exists)

\* An is_first_iteration that holds in every invocation.
IsFirstIterationAlways(state) == TRUE

\* is_first_iteration
IsFirstIteration(state) == state = "None"

\* should_write_output: at the final offset of the range, or always without
\* a range.
ShouldWriteOutput(input, offset) ==
    IF input.has_range THEN offset = input.final_offset ELSE TRUE

Event(offset, event) == [offset |-> offset, event |-> event]

\* initialize_corks: the state becomes Some(CorkSet::new(..)), or the program
\* exits on an error; then the cached fields are dropped.
InitializeCorks(input, offset) ==
    IF input.fails_at = offset
    THEN [state |-> "None", exited |-> TRUE, cached |-> TRUE,
          events |-> <<Event(offset, "initialize_failed")>>]
    ELSE [state |-> "Some", exited |-> FALSE, cached |-> FALSE,
          events |-> <<Event(offset, "initialize"), Event(offset, "drop_all_fields")>>]

\* advect_corks: the corks of the state are advected, or the program exits
\* on an error; then the cached fields are dropped.
AdvectCorks(input, offset) ==
    IF input.fails_at = offset
    THEN [state |-> "Some", exited |-> TRUE, cached |-> TRUE,
          events |-> <<Event(offset, "advect_failed")>>]
    ELSE [state |-> "Some", exited |-> FALSE, cached |-> FALSE,
          events |-> <<Event(offset, "advect"), Event(offset, "drop_all_fields")>>]

\* write_output: when the output is due or the corks state is None, the
\* write permission is checked, and the function returns if it is refused
\* or no output is due; then the corks are saved to the temporary path (an
\* error ends the program) and moved to the target path.
WriteOutput(input, offset, state, output) ==
    IF ShouldWriteOutput(input, offset) \/ IsFirstIteration(state)
    THEN IF ~input.write_allowed \/ ~ShouldWriteOutput(input, offset)
         THEN [exited |-> FALSE, output |-> output,
               events |-> <<Event(offset, "check_if_write_allowed")>>]
         ELSE IF ~input.save_succeeds
              THEN [exited |-> TRUE, output |-> output,
                    events |-> <<Event(offset, "check_if_write_allowed"),
                                 Event(offset, "save_failed")>>]
              ELSE [exited |-> FALSE, output |-> "new",
                    events |-> <<Event(offset, "check_if_write_allowed"),
                                 Event(offset, "save"),
                                 Event(offset, "perform_replace")>>]
    ELSE [exited |-> FALSE, output |-> output, events |-> <<>>]

\* The snapshot after the one at the given offset.
NextOffset(offset) == offset + 1

\* run_tracing for the snapshot at current_offset: the corks are initialized
\* when the state is None and advected otherwise, then write_output is
\* called with the state; the run goes on with the next snapshot of the
\* range.
RunTracing ==
    /\ cork_pc = "running"
    /\ \E traced \in {IF IsFirstIteration(corks_state)
                       THEN InitializeCorks(cork_input, current_offset)
                       ELSE AdvectCorks(cork_input, current_offset)} :
          /\ corks_state' = traced.state
          /\ cached_fields' = traced.cached
          /\ IF traced.exited
             THEN /\ cork_pc' = "exited"
                  /\ cork_trace' = cork_trace \o traced.events
                  /\ UNCHANGED <<current_offset, cork_output>>
             ELSE \E wrote \in {WriteOutput(cork_input, current_offset, traced.state,
                                            cork_output)} :
                    /\ cork_trace' = cork_trace \o traced.events \o wrote.events
                    /\ cork_output' = wrote.output
                    /\ IF wrote.exited
                       THEN cork_pc' = "exited" /\ UNCHANGED current_offset
                       ELSE IF ShouldWriteOutput(cork_input, current_offset)
                            THEN cork_pc' = "finished" /\ UNCHANGED current_offset
                            ELSE /\ cork_pc' = "running"
                                 /\ current_offset' = NextOffset(current_offset)
    /\ UNCHANGED <<swarmVars, stepVars, cliVars, simVars, writeVars, modeVars, extractVars,
                   ftrVars, cork_input>>

SpecCorks == InitCorks /\ [][RunTracing]_vars

(***************************************************************************)
(* The overwrite mode of the simulate pipeline: the run_with_selected_*    *)
(* functions of cli/ebeam/simulate.rs hand the matches of the innermost    *)
(* subcommand found so far to the next function.                           *)
(***************************************************************************)

\* The subcommands of simulate in the order they must be given.
SubcommandOrder ==
    <<"detector", "power_law_distribution", "simple_power_law_accelerator",
      "analytical_propagator", "poly_fit_interpolator", "rkf_stepper">>

Detectors == {"manual_detector", "simple_detector"}

\* The subcommands given, in order, each nested in the one before it.
ChainOf(detector, given) ==
    LET chosen(name) == IF name = "detector" THEN detector \in Detectors
                        ELSE name \in given
        InOrder[q \in 0..Len(SubcommandOrder)] ==
            IF q = 0 THEN <<>>
            ELSE IF chosen(SubcommandOrder[q])
                 THEN Append(InOrder[q - 1],
                             IF SubcommandOrder[q] = "detector" THEN detector
                             ELSE SubcommandOrder[q])
                 ELSE InOrder[q - 1]
    IN InOrder[Len(SubcommandOrder)]

\* The command lines of the model: at most one of --overwrite and
\* --no-overwrite (they conflict) on simulate itself, any of the
\* subcommands, and whether the build checks argument ids.
SimulateLines ==
    {[flag |-> flag, chain |-> ChainOf(detector, given), debug_assertions |-> debug] :
        flag \in {"none", "overwrite", "no-overwrite"},
        detector \in Detectors \cup {"none"},
        given \in SUBSET (Range(SubcommandOrder) \ {"detector"}),
        debug \in BOOLEAN}

InitMode ==
    /\ TracingOff
    /\ CliOff
    /\ SimOff
    /\ WriteOff
    /\ CorksOff
    /\ ExtractOff
    /\ FtrOff
    /\ simulate_line \in SimulateLines
    /\ mode_arguments = 0
    /\ mode_pc = "run_with_selected_detector"
    /\ overwrite_mode = "unset"

\* ArgMatches::subcommand_matches on the matches at the given depth of the
\* chain (0 for simulate itself): the depth of the subcommand's matches when
\* the subcommand given next has one of the names, and the depth itself
\* otherwise.
SubcommandMatchesOr(line, depth, names) ==
    IF depth < Len(line.chain) /\ line.chain[depth + 1] \in names
    THEN depth + 1 ELSE depth

\* The argument ids that the command at the given depth defines, among the
\* two of interest: simulate defines both, its subcommands neither.
DefinedIds(depth) == IF depth = 0 THEN {"overwrite", "no-overwrite"} ELSE {}

\* ArgMatches::is_present for an id that the command defines.
IsPresent(line, depth, id) == id \in DefinedIds(depth) /\ line.flag = id

\* ArgMatches::is_present panics on an id that the command does not define
\* in a build that checks the ids, and is false in the others.
IsPresentPanics(line, depth, id) ==
    line.debug_assertions /\ id \notin DefinedIds(depth)

\* An overwrite_mode_from_arguments that is always given the matches of
\* simulate itself.
OverwriteModeFromRootArguments(line, depth) ==
    IF line.flag = "overwrite" THEN "Always"
    ELSE IF line.flag = "no-overwrite" THEN "Never" ELSE "Ask"

\* overwrite_mode_from_arguments
OverwriteModeFromArguments(line, depth) ==
    IF IsPresentPanics(line, depth, "overwrite") THEN "panic"
    ELSE IF IsPresent(line, depth, "overwrite") THEN "Always"
    ELSE IF IsPresentPanics(line, depth, "no-overwrite") THEN "panic"
    ELSE IF IsPresent(line, depth, "no-overwrite") THEN "Never"
    ELSE "Ask"

\* run_with_selected_detector: the matches of the detector subcommand, or
\* its own, go to the next function.
RunWithSelectedDetector ==
    /\ mode_pc = "run_with_selected_detector"
    /\ mode_arguments' = SubcommandMatchesOr(simulate_line, mode_arguments, Detectors)
    /\ mode_pc' = "run_with_selected_accelerator"
    /\ UNCHANGED <<swarmVars, stepVars, cliVars, simVars, writeVars, corkVars,
                   extractVars, ftrVars, simulate_line, overwrite_mode>>

\* run_with_selected_accelerator: first the distribution subcommand, then the
\* accelerator subcommand in the matches found.
RunWithSelectedAccelerator ==
    /\ mode_pc = "run_with_selected_accelerator"
    /\ mode_arguments' =
          SubcommandMatchesOr(simulate_line,
              SubcommandMatchesOr(simulate_line, mode_arguments,
                                  {"power_law_distribution"}),
              {"simple_power_law_accelerator"})
    /\ mode_pc' = "run_with_simple_accelerator_and_selected_propagator"
    /\ UNCHANGED <<swarmVars, stepVars, cliVars, simVars, writeVars, corkVars,
                   extractVars, ftrVars, simulate_line, overwrite_mode>>

RunWithSimpleAcceleratorAndSelectedPropagator ==
    /\ mode_pc = "run_with_simple_accelerator_and_selected_propagator"
    /\ mode_arguments' =
          SubcommandMatchesOr(simulate_line, mode_arguments, {"analytical_propagator"})
    /\ mode_pc' = "run_with_selected_interpolator"
    /\ UNCHANGED <<swarmVars, stepVars, cliVars, simVars, writeVars, corkVars,
                   extractVars, ftrVars, simulate_line, overwrite_mode>>

RunWithSelectedInterpolator ==
    /\ mode_pc = "run_with_selected_interpolator"
    /\ mode_arguments' =
          SubcommandMatchesOr(simulate_line, mode_arguments, {"poly_fit_interpolator"})
    /\ mode_pc' = "run_with_selected_stepper"
    /\ UNCHANGED <<swarmVars, stepVars, cliVars, simVars, writeVars, corkVars,
                   extractVars, ftrVars, simulate_line, overwrite_mode>>

\* run_with_selected_stepper up to io_context.set_overwrite_mode: the
\* stepper subcommand is looked for in the matches given (constructing its
\* configuration ends the program), and the overwrite mode is read from the
\* same matches.
RunWithSelectedStepper ==
    /\ mode_pc = "run_with_selected_stepper"
    /\ IF SubcommandMatchesOr(simulate_line, mode_arguments, {"rkf_stepper"})
            # mode_arguments
       THEN mode_pc' = "exited" /\ UNCHANGED overwrite_mode
       ELSE \E mode \in {OverwriteModeFromArguments(simulate_line, mode_arguments)} :
              IF mode = "panic"
              THEN mode_pc' = "panicked" /\ UNCHANGED overwrite_mode
              ELSE mode_pc' = "mode_set" /\ overwrite_mode' = mode
    /\ UNCHANGED <<swarmVars, stepVars, cliVars, simVars, writeVars, corkVars,
                   extractVars, ftrVars, simulate_line, mode_arguments>>

NextMode ==
    \/ RunWithSelectedDetector
    \/ RunWithSelectedAccelerator
    \/ RunWithSimpleAcceleratorAndSelectedPropagator
    \/ RunWithSelectedInterpolator
    \/ RunWithSelectedStepper

SpecMode == InitMode /\ [][NextMode]_vars

(***************************************************************************)
(* The extract_* operations of FieldLineSet3: each samples a field at the  *)
(* start positions or along the paths read from the properties and inserts *)
(* the values into one of the maps.  A map is a function from its keys.    *)
(***************************************************************************)

\* The most extractions in a run of the model.
MaxExtractions == 2

\* The names of the fields extracted.
FieldNames == {"x", "r", "b"}

\* The largest coordinate inside the grid (the smallest is 0).
GridUpper == MaxLines + MaxLineLength

\* The lengths of the field lines of a traced set: every line has its start
\* position at least.
TracedLengths == UNION {[1..n -> 1..MaxLineLength] : n \in 0..MaxLines}

\* The properties of a traced set with the given line lengths: point j of
\* line i is at (i - 1, j - 1, 0), the start position is the first point.
TracedProperties(lengths) ==
    [number_of_field_lines |-> Len(lengths),
     fixed_scalar_values |->
        [key \in {"x0", "y0", "z0"} |->
            [i \in 1..Len(lengths) |-> IF key = "x0" THEN i - 1 ELSE 0]],
     fixed_vector_values |-> <<>>,
     varying_scalar_values |->
        [key \in {"x", "y", "z"} |->
            [i \in 1..Len(lengths) |->
                [j \in 1..lengths[i] |->
                    IF key = "x" THEN i - 1 ELSE IF key = "y" THEN j - 1 ELSE 0]]],
     varying_vector_values |-> <<>>]

InitExtract ==
    /\ TracingOff
    /\ CliOff
    /\ SimOff
    /\ WriteOff
    /\ CorksOff
    /\ ModeOff
    /\ FtrOff
    /\ \E lengths \in TracedLengths : line_set = TracedProperties(lengths)
    /\ traced_set = line_set
    /\ before_extract = line_set
    /\ last_extract = <<>>
    /\ extract_pc = "extracting"

\* The value of the scalar field of the given name at a position.
FieldCode(name) == IF name = "x" THEN 3 ELSE IF name = "r" THEN 1 ELSE 2
ScalarAt(name, position) ==
    (position[1] + position[2] + position[3] + FieldCode(name)) % (GridUpper + 2)

\* The value of the vector field of the given name at a position.
VectorAt(name, position) == <<ScalarAt(name, position), 0, 0>>

\* Vec3::length
VectorLength(vector) ==
    CHOOSE n \in 0..(GridUpper + 2) :
        n * n = vector[1] * vector[1] + vector[2] * vector[2] + vector[3] * vector[3]

\* expect_inside: the interpolation panics for a position outside the grid.
Inside(position) == \A c \in 1..3 : 0 <= position[c] /\ position[c] <= GridUpper

Min3(a, b, c) == IF a <= b /\ a <= c THEN a ELSE IF b <= c THEN b ELSE c

\* The zip of the series x0, y0, z0: the start position of each line.
StartPositions(p) ==
    [i \in 1..Min3(Len(p.fixed_scalar_values["x0"]), Len(p.fixed_scalar_values["y0"]),
                   Len(p.fixed_scalar_values["z0"])) |->
        <<p.fixed_scalar_values["x0"][i], p.fixed_scalar_values["y0"][i],
          p.fixed_scalar_values["z0"][i]>>]

\* Positions along the paths with the first point of each line only.
PathStarts(p) ==
    [i \in 1..Len(p.varying_scalar_values["x"]) |->
        [j \in 1..1 |->
            <<p.varying_scalar_values["x"][i][j], p.varying_scalar_values["y"][i][j],
              p.varying_scalar_values["z"][i][j]>>]]

\* The zip of the series x, y, z, line by line and point by point.
PathPositions(p) ==
    [i \in 1..Min3(Len(p.varying_scalar_values["x"]), Len(p.varying_scalar_values["y"]),
                   Len(p.varying_scalar_values["z"])) |->
        [j \in 1..Min3(Len(p.varying_scalar_values["x"][i]),
                       Len(p.varying_scalar_values["y"][i]),
                       Len(p.varying_scalar_values["z"][i])) |->
            <<p.varying_scalar_values["x"][i][j], p.varying_scalar_values["y"][i][j],
              p.varying_scalar_values["z"][i][j]>>]]

\* HashMap::insert: the values are stored under the key, in place of the
\* values the key had.
Insert(map, key, values) ==
    [k \in (DOMAIN map) \cup {key} |-> IF k = key THEN values ELSE map[k]]

AllInside(positions) == \A i \in 1..Len(positions) : Inside(positions[i])

AllInsideAlong(paths) == \A i \in 1..Len(paths) : AllInside(paths[i])

\* The outcome of an extraction: the program panicked, or the properties.
ExtractPanicked(p) == [panicked |-> TRUE, properties |-> p]
Extracted(p) == [panicked |-> FALSE, properties |-> p]

\* extract_fixed_scalars on the properties p with the field of the given name.
FixedScalarsExtracted(p, name) ==
    IF ~AllInside(StartPositions(p)) THEN ExtractPanicked(p)
    ELSE Extracted([p EXCEPT !.fixed_scalar_values =
            Insert(@, name \o "0",
                   [i \in 1..Len(StartPositions(p)) |->
                       ScalarAt(name, StartPositions(p)[i])])])

\* extract_fixed_vectors on the properties p with the field of the given name.
FixedVectorsExtracted(p, name) ==
    IF ~AllInside(StartPositions(p)) THEN ExtractPanicked(p)
    ELSE Extracted([p EXCEPT !.fixed_vector_values =
            Insert(@, name \o "0",
                   [i \in 1..Len(StartPositions(p)) |->
                       VectorAt(name, StartPositions(p)[i])])])

\* extract_varying_scalars on the properties p with the field of the given name.
VaryingScalarsExtracted(p, name) ==
    IF ~AllInsideAlong(PathPositions(p)) THEN ExtractPanicked(p)
    ELSE Extracted([p EXCEPT !.varying_scalar_values =
            Insert(@, name,
                   [i \in 1..Len(PathPositions(p)) |->
                       [j \in 1..Len(PathPositions(p)[i]) |->
                           ScalarAt(name, PathPositions(p)[i][j])]])])

\* extract_varying_vectors on the properties p with the field of the given name.
VaryingVectorsExtracted(p, name) ==
    IF ~AllInsideAlong(PathPositions(p)) THEN ExtractPanicked(p)
    ELSE Extracted([p EXCEPT !.varying_vector_values =
            Insert(@, name,
                   [i \in 1..Len(PathPositions(p)) |->
                       [j \in 1..Len(PathPositions(p)[i]) |->
                           VectorAt(name, PathPositions(p)[i][j])]])])

\* extract_varying_vector_magnitudes on the properties p with the field of the given name.
VaryingVectorMagnitudesExtracted(p, name) ==
    IF ~AllInsideAlong(PathPositions(p)) THEN ExtractPanicked(p)
    ELSE Extracted([p EXCEPT !.varying_scalar_values =
            Insert(@, name,
                   [i \in 1..Len(PathPositions(p)) |->
                       [j \in 1..Len(PathPositions(p)[i]) |->
                           VectorLength(VectorAt(name, PathPositions(p)[i][j]))]])])

\* A call of extract_fixed_scalars with one of the fields.
ExtractFixedScalars ==
    /\ extract_pc = "extracting"
    /\ Len(last_extract) < MaxExtractions
    /\ \E name \in FieldNames :
          \E outcome \in {FixedScalarsExtracted(line_set, name)} :
              /\ line_set' = outcome.properties
              /\ extract_pc' = IF outcome.panicked THEN "panicked" ELSE "extracting"
              /\ last_extract' =
                    Append(last_extract, [operation |-> "extract_fixed_scalars", name |-> name])
    /\ before_extract' = line_set
    /\ UNCHANGED <<swarmVars, stepVars, cliVars, simVars, writeVars, corkVars, modeVars,
                   ftrVars, traced_set>>

\* A call of extract_fixed_vectors with one of the fields.
ExtractFixedVectors ==
    /\ extract_pc = "extracting"
    /\ Len(last_extract) < MaxExtractions
    /\ \E name \in FieldNames :
          \E outcome \in {FixedVectorsExtracted(line_set, name)} :
              /\ line_set' = outcome.properties
              /\ extract_pc' = IF outcome.panicked THEN "panicked" ELSE "extracting"
              /\ last_extract' =
                    Append(last_extract, [operation |-> "extract_fixed_vectors", name |-> name])
    /\ before_extract' = line_set
    /\ UNCHANGED <<swarmVars, stepVars, cliVars, simVars, writeVars, corkVars, modeVars,
                   ftrVars, traced_set>>

\* A call of extract_varying_scalars with one of the fields.
ExtractVaryingScalars ==
    /\ extract_pc = "extracting"
    /\ Len(last_extract) < MaxExtractions
    /\ \E name \in FieldNames :
          \E outcome \in {VaryingScalarsExtracted(line_set, name)} :
              /\ line_set' = outcome.properties
              /\ extract_pc' = IF outcome.panicked THEN "panicked" ELSE "extracting"
              /\ last_extract' =
                    Append(last_extract, [operation |-> "extract_varying_scalars", name |-> name])
    /\ before_extract' = line_set
    /\ UNCHANGED <<swarmVars, stepVars, cliVars, simVars, writeVars, corkVars, modeVars,
                   ftrVars, traced_set>>

\* A call of extract_varying_vectors with one of the fields.
ExtractVaryingVectors ==
    /\ extract_pc = "extracting"
    /\ Len(last_extract) < MaxExtractions
    /\ \E name \in FieldNames :
          \E outcome \in {VaryingVectorsExtracted(line_set, name)} :
              /\ line_set' = outcome.properties
              /\ extract_pc' = IF outcome.panicked THEN "panicked" ELSE "extracting"
              /\ last_extract' =
                    Append(last_extract, [operation |-> "extract_varying_vectors", name |-> name])
    /\ before_extract' = line_set
    /\ UNCHANGED <<swarmVars, stepVars, cliVars, simVars, writeVars, corkVars, modeVars,
                   ftrVars, traced_set>>

\* A call of extract_varying_vector_magnitudes with one of the fields.
ExtractVaryingVectorMagnitudes ==
    /\ extract_pc = "extracting"
    /\ Len(last_extract) < MaxExtractions
    /\ \E name \in FieldNames :
          \E outcome \in {VaryingVectorMagnitudesExtracted(line_set, name)} :
              /\ line_set' = outcome.properties
              /\ extract_pc' = IF outcome.panicked THEN "panicked" ELSE "extracting"
              /\ last_extract' =
                    Append(last_extract, [operation |-> "extract_varying_vector_magnitudes", name |-> name])
    /\ before_extract' = line_set
    /\ UNCHANGED <<swarmVars, stepVars, cliVars, simVars, writeVars, corkVars, modeVars,
                   ftrVars, traced_set>>

NextExtract ==
    \/ ExtractFixedScalars
    \/ ExtractFixedVectors
    \/ ExtractVaryingScalars
    \/ ExtractVaryingVectors
    \/ ExtractVaryingVectorMagnitudes

SpecExtract == InitExtract /\ [][NextExtract]_vars

(***************************************************************************)
(* The arithmetic of ftr, a binary floating-point type: every operation of *)
(* the code returns the exact result rounded to the nearest value with     *)
(* MantissaBits significant bits, ties to even.  The values are rationals  *)
(* as before; the exponent is not limited.                                 *)
(***************************************************************************)

\* The number of significant bits of ftr in the model.
MantissaBits == 5

\* The unit roundoff 2^(-MantissaBits): the largest relative error of one
\* rounding.
UnitRoundoff == Rat(1, Pow(2, MantissaBits))

\* q 2^k, and the sum of two rationals on their least common denominator.
RShift(q, k) ==
    IF k >= 0
    THEN Bind(GCD(Pow(2, k), q[2]), LAMBDA g : <<q[1] * (Pow(2, k) \div g), q[2] \div g>>)
    ELSE Bind(GCD(Pow(2, -k), Abs(q[1])), LAMBDA g :
              IF q[1] = 0 THEN q ELSE <<q[1] \div g, q[2] * (Pow(2, -k) \div g)>>)
RSum(a, b) ==
    Bind((a[2] \div GCD(a[2], b[2])) * b[2], LAMBDA l :
         Rat(a[1] * (l \div a[2]) + b[1] * (l \div b[2]), l))

\* The exponent e of a positive q: 2^e <= q < 2^(e + 1).
RECURSIVE ExponentOf(_, _)
ExponentOf(q, e) ==
    IF RLess(q, TwoTo(e)) THEN ExponentOf(q, e - 1)
    ELSE IF RLeq(TwoTo(e + 1), q) THEN ExponentOf(q, e + 1)
    ELSE e

\* The integer nearest to a positive s, the even one of two equally near.
RoundHalfEven(s) ==
    Bind(RFloor(s), LAMBDA m :
    Bind(RSub(s, R(m)), LAMBDA rest :
    IF RLess(Rat(1, 2), rest) \/ (rest = Rat(1, 2) /\ m % 2 = 1) THEN m + 1 ELSE m))

\* The value of ftr nearest to r.
Fl(r) ==
    IF r[1] = 0 THEN r
    ELSE Bind(ExponentOf(RAbs(r), 0), LAMBDA e :
         Bind(RoundHalfEven(RShift(RAbs(r), MantissaBits - 1 - e)), LAMBDA m :
         RShift(R(IF r[1] < 0 THEN -m ELSE m), e + 1 - MantissaBits)))

\* The operations of ftr and of Vec3<ftr>.
FAdd(a, b) == Fl(RSum(a, b))
FSub(a, b) == Fl(RSum(a, RNeg(b)))
FMul(a, b) == Fl(RMul(a, b))
FDiv(a, b) == Fl(RDiv(a, b))
FVAdd(u, v) == <<FAdd(u[1], v[1]), FAdd(u[2], v[2]), FAdd(u[3], v[3])>>
FVScale(v, r) == <<FMul(v[1], r), FMul(v[2], r), FMul(v[3], r)>>
FVDiv(v, r) == FVScale(v, FDiv(R(1), r))

\* The constants of RKF23Stepper3 as ftr values: 2.0/9.0 and so on.
FtrA41 == FDiv(R(2), R(9))
FtrA42 == FDiv(R(1), R(3))
FtrA43 == FDiv(R(4), R(9))
FtrE1 == FDiv(R(-5), R(72))
FtrE2 == FDiv(R(1), R(12))
FtrE3 == FDiv(R(1), R(9))
FtrE4 == FDiv(R(-1), R(8))

\* A step displacement that leaves out the last stage.
FtrStepDisplacementTwoStages(direction, direction_1, direction_2, step_size) ==
    FVScale(FVAdd(FVScale(direction, FtrA41), FVScale(direction_1, FtrA42)), step_size)

\* step_displacement of attempt_step
FtrStepDisplacement(direction, direction_1, direction_2, step_size) ==
    FVScale(FVAdd(FVAdd(FVScale(direction, FtrA41), FVScale(direction_1, FtrA42)),
                  FVScale(direction_2, FtrA43)),
            step_size)

\* compute_error_deltas
FtrComputeErrorDeltas(direction, direction_1, direction_2, next_direction, step_size) ==
    FVScale(FVAdd(FVAdd(FVAdd(FVScale(direction, FtrE1), FVScale(direction_1, FtrE2)),
                        FVScale(direction_2, FtrE3)),
                  FVScale(next_direction, FtrE4)),
            step_size)

\* The square of the error norm: the mean of the squares of
\* delta_c / (abs_tol + rel_tol max(|x_c|, |x'_c|)).
FtrComputeErrorSq(deltas, position, next_position, absolute_tolerance, relative_tolerance) ==
    Bind([c \in Dims |->
            FDiv(deltas[c],
                 FAdd(absolute_tolerance,
                      FMul(relative_tolerance,
                           RMax(RAbs(position[c]), RAbs(next_position[c])))))],
         LAMBDA q :
            FDiv(FAdd(FAdd(FMul(q[1], q[1]), FMul(q[2], q[2])), FMul(q[3], q[3])), R(3)))

\* compute_dense_interpolation_coefs
FtrComputeDenseInterpolationCoefs(previous_position, previous_step_displacement, previous_direction, direction, previous_step_size) ==
    <<previous_position, previous_step_displacement,
      FVScale(previous_direction, previous_step_size),
      FVScale(direction, previous_step_size)>>

\* An interpolant whose last term lacks the factor fraction - 1.
FtrDensePolynomialNoEndFactor(coefs, fraction) ==
    Bind(FSub(fraction, R(1)), LAMBDA fraction_minus_one :
    FVAdd(FVAdd(coefs[1], FVScale(coefs[2], fraction)),
          FVScale(FVAdd(FVAdd(FVScale(coefs[2], RNeg(FAdd(fraction, fraction_minus_one))),
                              FVScale(coefs[3], fraction_minus_one)),
                        FVScale(coefs[4], fraction)),
                  fraction)))

\* The position computed by interpolate_dense_position.
FtrDensePolynomial(coefs, fraction) ==
    Bind(FSub(fraction, R(1)), LAMBDA fraction_minus_one :
    FVAdd(FVAdd(coefs[1], FVScale(coefs[2], fraction)),
          FVScale(FVAdd(FVAdd(FVScale(coefs[2], RNeg(FAdd(fraction, fraction_minus_one))),
                              FVScale(coefs[3], fraction_minus_one)),
                        FVScale(coefs[4], fraction)),
                  FMul(fraction, fraction_minus_one))))

\* interpolate_dense_position: the position, wrapped by the grid when the
\* previous step wrapped.  panicked: the unwrap of grid.wrap_point failed.
FtrInterpolateDensePosition(coefs, fraction, previous_step_wrapped) ==
    Bind(FtrDensePolynomial(coefs, fraction), LAMBDA position :
    IF previous_step_wrapped
    THEN Bind(WrapPoint(position), LAMBDA w :
              [panicked |-> ~w.some, position |-> w.point])
    ELSE [panicked |-> FALSE, position |-> position])

\* The largest ftr value below 1.
AlmostOne == Rat(Pow(2, MantissaBits) - 1, Pow(2, MantissaBits))

\* The step attempts of the model: a field that has the direction at every
\* point, the step size, the position and the tolerances.
AttemptInputs ==
    [operation : {"attempt_step"},
     direction : {<<R(1), R(0), R(0)>>, <<Rat(3, 4), Rat(-5, 4), R(0)>>,
                  <<Rat(1, 2), Rat(1, 2), Rat(-7, 4)>>},
     step_size : {R(1), Rat(1, 2), Rat(3, 8)},
     position : {<<Rat(1, 2), Rat(1, 2), Rat(1, 2)>>},
     absolute_tolerance : {Rat(1, 4), Rat(1, 256), Rat(1, 1024)},
     relative_tolerance : {R(0), Rat(1, 4)}]

\* The end directions of the previous step: those of a straight step
\* (both displacement / step size) or the given two.
EndDirections ==
    {[straight |-> TRUE, previous_direction |-> VZero, direction |-> VZero],
     [straight |-> FALSE, previous_direction |-> <<R(1), R(0), R(0)>>,
      direction |-> <<R(0), R(1), R(0)>>],
     [straight |-> FALSE, previous_direction |-> <<Rat(3, 4), Rat(-5, 4), R(0)>>,
      direction |-> <<Rat(-3, 4), Rat(5, 4), R(0)>>]}

\* The dense outputs of the model: the state after an accepted step and
\* the fraction.
DenseInputs ==
    [operation : {"interpolate_dense_position"},
     previous_position : {<<Rat(1, 2), Rat(1, 2), Rat(1, 2)>>,
                          <<Rat(11, 16), Rat(3, 4), Rat(1, 4)>>},
     previous_step_displacement : {<<Rat(1, 2), R(0), R(0)>>,
                                   <<Rat(-11, 16), Rat(1, 4), R(0)>>,
                                   <<Rat(-5, 16), Rat(3, 16), R(0)>>},
     previous_step_size : {R(1), Rat(3, 4)},
     fraction : {Rat(1, 4), Rat(3, 8), Rat(5, 8), AlmostOne, R(1)},
     ends : EndDirections,
     previous_step_wrapped : BOOLEAN]

InitFtr ==
    /\ TracingOff
    /\ CliOff
    /\ SimOff
    /\ WriteOff
    /\ CorksOff
    /\ ModeOff
    /\ ExtractOff
    /\ ftr_input \in AttemptInputs \cup DenseInputs
    /\ ftr_result = <<>>
    /\ ftr_pc = "start"

\* attempt_step and the error of the attempt in a field that has the same
\* direction at every point: state.direction, the two intermediate
\* directions and the next direction are that direction.
AttemptStepInFtr ==
    /\ ftr_pc = "start"
    /\ ftr_input.operation = "attempt_step"
    /\ \E step_displacement \in
            {FtrStepDisplacement(ftr_input.direction, ftr_input.direction,
                                 ftr_input.direction, ftr_input.step_size)} :
       \E deltas \in
            {FtrComputeErrorDeltas(ftr_input.direction, ftr_input.direction,
                                   ftr_input.direction, ftr_input.direction,
                                   ftr_input.step_size)} :
       \E error_sq \in
            {FtrComputeErrorSq(deltas, ftr_input.position,
                               FVAdd(ftr_input.position, step_displacement),
                               ftr_input.absolute_tolerance,
                               ftr_input.relative_tolerance)} :
          ftr_result' = [step_displacement |-> step_displacement,
                         error_deltas |-> deltas,
                         error_sq |-> error_sq,
                         accepted |-> RLeq(error_sq, R(1))]
    /\ ftr_pc' = "done"
    /\ UNCHANGED <<swarmVars, stepVars, cliVars, simVars, writeVars, corkVars, modeVars,
                   extractVars, ftr_input>>

\* The end directions of the input as ftr values.
PreviousDirectionOf(input) ==
    IF input.ends.straight
    THEN FVDiv(input.previous_step_displacement, input.previous_step_size)
    ELSE input.ends.previous_direction
DirectionOf(input) ==
    IF input.ends.straight
    THEN FVDiv(input.previous_step_displacement, input.previous_step_size)
    ELSE input.ends.direction

\* compute_dense_interpolation_coefs and interpolate_dense_position.
InterpolateDensePositionInFtr ==
    /\ ftr_pc = "start"
    /\ ftr_input.operation = "interpolate_dense_position"
    /\ \E coefs \in
            {FtrComputeDenseInterpolationCoefs(
                ftr_input.previous_position, ftr_input.previous_step_displacement,
                PreviousDirectionOf(ftr_input), DirectionOf(ftr_input),
                ftr_input.previous_step_size)} :
          ftr_result' = FtrInterpolateDensePosition(coefs, ftr_input.fraction,
                                                    ftr_input.previous_step_wrapped)
    /\ ftr_pc' = "done"
    /\ UNCHANGED <<swarmVars, stepVars, cliVars, simVars, writeVars, corkVars, modeVars,
                   extractVars, ftr_input>>

NextFtr ==
    \/ AttemptStepInFtr
    \/ InterpolateDensePositionInFtr

SpecFtr == InitFtr /\ [][NextFtr]_vars

(***************************************************************************)
(* Properties of the stepper.                                              *)
(***************************************************************************)
\* The fields of the stepper state other than step_size and error.
Advance(state) ==
    <<state.position, state.direction, state.distance, state.n_sudden_reversals,
      state.previous_position, state.previous_direction, state.previous_step_size,
      state.previous_step_displacement, state.previous_step_wrapped,
      state.next_output_distance>>

Rejected == pc = "stepping" /\ attempts' = attempts + 1

C5_StoppedAtOnce ==
    /\ \A i \in 1..Len(tried.evals) :
          tried.evals[i].kind = "Stopped" =>
             /\ i = Len(tried.evals)
             /\ tried.kind = "Stopped"
             /\ tried.cause = tried.evals[i].cause
             /\ tried.attempt = NoAttempt
             /\ stepper = before
             /\ result = StoppedBy(tried.cause)
    /\ tried.kind = "Ok" =>
          /\ Len(tried.evals) = N_INTERMEDIATE_STEPS + 1
          /\ Len(tried.attempt.intermediate_directions) = N_INTERMEDIATE_STEPS
    /\ tried.kind = "Stopped" /\ tried.evals # <<>> =>
          tried.evals[Len(tried.evals)].kind = "Stopped"

C5_Witness ==
    /\ Len(tried.evals) = 2
    /\ tried.evals[2].kind = "Stopped"
    /\ tried.kind = "Stopped"

\* The direction u is the reverse of v.  The directions of the model are unit
\* vectors along an axis, so their dot product is negative exactly then.
Reversed(u, v) == u = VNeg(v)

\* The length of the run of reversals the sequence of directions ends with.
RECURSIVE ReversalRun(_)
ReversalRun(ds) ==
    IF Len(ds) < 2 \/ ~Reversed(ds[Len(ds)], ds[Len(ds) - 1]) THEN 0
    ELSE 1 + ReversalRun(SubSeq(ds, 1, Len(ds) - 1))

\* C6: n_sudden_reversals is the length of the current run of accepted steps
\* that reversed the direction, and the result is Stopped(Sink) exactly when
\* it has reached sudden_reversals_for_sink.
C6_ReversalRunCounted ==
    /\ stepper.n_sudden_reversals = ReversalRun(directions)
    /\ stepper.n_sudden_reversals <= stepper.config.sudden_reversals_for_sink
    /\ result = StoppedBy("Sink")
          <=> stepper.n_sudden_reversals = stepper.config.sudden_reversals_for_sink

C6_Witness ==
    /\ result = StoppedBy("Sink")
    /\ Len(directions) > SuddenReversalsForSink + 1
    /\ ~Reversed(directions[Len(directions) - SuddenReversalsForSink],
                 directions[Len(directions) - SuddenReversalsForSink - 1])

\* The dense output points the callback received, in order.
DenseEmitted == SelectSeq(emitted, LAMBDA e : e.kind = "dense")

\* C7: the i-th dense output point is at arc length i times dense_step_size,
\* within the accepted step (from, to] it was computed in, with a fraction in
\* (0, 1]; once a call of step_dense_output has returned, every multiple up to
\* the distance reached has been put out.
C7_DenseOutputAtMultiples ==
    /\ \A i \in 1..Len(DenseEmitted) :
          /\ DenseEmitted[i].distance = RMul(R(i), stepper.config.dense_step_size)
          /\ RLess(DenseEmitted[i].from, DenseEmitted[i].distance)
          /\ RLeq(DenseEmitted[i].distance, DenseEmitted[i].to)
          /\ RLess(R(0), DenseEmitted[i].fraction)
          /\ RLeq(DenseEmitted[i].fraction, R(1))
    /\ dense /\ pc = "ready" =>
          Len(DenseEmitted) = RFloor(RDiv(stepper.distance, stepper.config.dense_step_size))

C7_Witness ==
    /\ Len(DenseEmitted) >= 3
    /\ steps >= 2
    /\ pc = "ready"
    /\ \E i \in 1..Len(DenseEmitted) : DenseEmitted[i].fraction = R(1)
    /\ \E i \in 1..Len(DenseEmitted) : RLess(DenseEmitted[i].fraction, R(1))

\* C8: every dense output point lies within [lower, upper) along each
\* periodic axis.
C8_DenseOutputInsidePeriodicBounds ==
    \A i \in 1..Len(DenseEmitted) :
        \A c \in Dims : IsPeriodic[c] => InRange(DenseEmitted[i].position, c)

\* C9: an attempt that is not stopped has step_wrapped set exactly when the
\* evaluation at the next position reported a wrapped position; next_position
\* is then that wrapped position and otherwise the unwrapped one, and
\* step_displacement is the unwrapped displacement in both cases.
C9_WrappedByNextPositionOnly ==
    tried.kind = "Ok" =>
        LET displacement ==
                VScale(VAdd(VAdd(VScale(before.direction, A41),
                                 VScale(tried.evals[1].direction, A42)),
                            VScale(tried.evals[2].direction, A43)),
                       before.step_size)
            unwrapped == VAdd(before.position, displacement)
        IN  /\ tried.attempt.step_wrapped <=> tried.evals[3].kind = "WithWrappedPosition"
            /\ tried.attempt.step_displacement = displacement
            /\ tried.attempt.step_wrapped =>
                  /\ tried.attempt.next_position = WrapPoint(unwrapped).point
                  /\ tried.attempt.next_position # unwrapped
            /\ ~tried.attempt.step_wrapped => tried.attempt.next_position = unwrapped

C9_Witness ==
    /\ tried.kind = "Ok"
    /\ tried.attempt.step_wrapped
    /\ tried.attempt.next_position
          # VAdd(before.position, tried.attempt.step_displacement)

\* C10: interpolate_dense_position does not panic.
C10_InterpolationNeverPanics == pc # "panicked"

\* The field sample at an in-bounds position is the zero vector.
NullAt(p) == WrapPoint(p).some /\ FieldSample(field, WrapPoint(p).point) = VZero

C13_WitnessOutOfBounds ==
    /\ pc = "stopped" /\ ~WrapPoint(start).some /\ result = StoppedBy("OutOfBounds")

TypeOfScheme(scheme) == IF scheme = "rkf23" THEN "RKF23" ELSE "RKF45"

\* C15: once construct_rkf_stepper_config_from_options has run on options
\* clap accepted, with numeric values that parse, it has returned (it has not
\* panicked) and the stepper type is the one of the stepping scheme: RKF23
\* for rkf23, RKF45 for rkf45.
C15_SchemeGivesMatchingType ==
    (/\ cli_pc \notin {"start", "matched", "rejected", "off"}
     /\ Parseable(arguments)
     /\ arguments.stepping_scheme \in {"rkf23", "rkf45"}) =>
        /\ cli_pc = "constructed"
        /\ constructed.stepper_type = TypeOfScheme(arguments.stepping_scheme)

C16_WitnessBuilt ==
    /\ cli_pc = "built"
    /\ built.config.max_step_attempts = 16

\* The stages that have to succeed before the first output file is closed.
BeforeClose(input) ==
    {"verify_grid", "check_if_write_allowed", "simulate", "save"}
        \cup (IF input.extra_quantities THEN {"extract"} ELSE {})

\* C17: the content of the target path changes only in the step of
\* close_atomic_output_file, and only when grid verification, the write
\* permission check, the simulation, the extraction of the extra quantities
\* asked for and the save to the temporary path have succeeded; as long as
\* close_atomic_output_file has not succeeded, in particular after a failure
\* of an earlier stage, the target path holds what it held before the run.
C17_TargetChangedOnlyByClose ==
    /\ [](sim_pc # "off" /\ "close_atomic_output_file" \notin Range(done) =>
            files.target = Before(run_input.target_exists))
    /\ [][files'.target # files.target =>
            /\ sim_pc = "close_atomic_output_file"
            /\ BeforeClose(run_input) \subseteq Range(done)
            /\ files'.target = "new"]_vars

\* The save failed after writing a part of the temporary file, while the
\* target path held a file.
C17_Witness ==
    /\ sim_pc = "exited"
    /\ run_input.fails_at = "save"
    /\ files.temporary = "part"
    /\ files.target = "old"

\* The run ended with the new file at the target path.
C17_WitnessClosed ==
    /\ sim_pc = "finished"
    /\ files.target = "new"
    /\ "extract" \in Range(done)

\* The items of the section of the given name in the output, none when the
\* section was not written.
ItemsOf(name) ==
    Flat([q \in 1..Len(written.sections) |->
            IF written.sections[q].section = name
            THEN written.sections[q].items ELSE <<>>])

\* The properties hold as many lines as number_of_field_lines says.
WellFormed == ~to_write.overstated

\* C18: for well-formed properties the Offsets section has one entry for
\* each of the n_lines field lines, and entry i is the sum of the lengths of
\* the lines before line i (so entry 1 is 0, the entries do not decrease,
\* and the last entry plus the last length is the number of elements), also
\* when all lines are empty and when there is no varying quantity.
C18_OffsetsForEveryLine ==
    (write_pc = "done" /\ WellFormed) =>
        /\ Len(ItemsOf("offsets")) = to_write.properties.number_of_field_lines
        /\ \A i \in 1..Len(ItemsOf("offsets")) :
              ItemsOf("offsets")[i] = SeqSum(SubSeq(to_write.lengths, 1, i - 1))

\* The header counts as a reader gets them.
Header == ItemsOf("header")
NLines == Header[2]
NElements == Header[3]

\* For each of the four groups, in the order of the format: its body
\* section, its number of quantities by the header, the number of floats of
\* one series, and the number of names before its names in the Names block.
Groups ==
    <<[section |-> "fixed_scalar", count |-> Header[4], series |-> NLines,
       skip |-> 0],
      [section |-> "fixed_vector", count |-> Header[5], series |-> NLines * 3,
       skip |-> Header[4]],
      [section |-> "varying_scalar", count |-> Header[6], series |-> NElements,
       skip |-> Header[4] + Header[5]],
      [section |-> "varying_vector", count |-> Header[7], series |-> NElements * 3,
       skip |-> Header[4] + Header[5] + Header[6]]>>

\* The name of the quantity a float of the body belongs to.
NameOfFloat(float) == float[1]

\* The position of the section of the given name in the output, 0 when it
\* was not written.
PositionOf(name) ==
    SeqSum([q \in 1..Len(written.sections) |->
                IF written.sections[q].section = name THEN q ELSE 0])

\* C19: read with the header counts, the Names block holds the names of the
\* fixed scalar, fixed vector, varying scalar and varying vector quantities
\* in this order, the body sections come in the same order of groups, and
\* every float of the k-th series of a group's section belongs to the
\* quantity of the k-th name of the group, whatever the iteration order of
\* the maps.
C19_NamesInBodyOrder ==
    (write_pc = "done" /\ WellFormed) =>
        /\ Len(ItemsOf("names")) = Header[4] + Header[5] + Header[6] + Header[7]
        /\ \A g \in 1..4 :
              /\ Len(ItemsOf(Groups[g].section)) = Groups[g].count * Groups[g].series
              /\ \A q \in 1..Groups[g].count : \A j \in 1..Groups[g].series :
                    NameOfFloat(ItemsOf(Groups[g].section)[(q - 1) * Groups[g].series + j])
                        = ItemsOf("names")[Groups[g].skip + q]
        /\ \A g, h \in 1..4 :
              (g < h /\ PositionOf(Groups[g].section) > 0
                     /\ PositionOf(Groups[h].section) > 0) =>
                  PositionOf(Groups[g].section) < PositionOf(Groups[h].section)
        /\ {ItemsOf("names")[q] : q \in 1..Header[4]}
              = Range(NamesOf(to_write.properties.fixed_scalar_values))
        /\ {ItemsOf("names")[Header[4] + Header[5] + q] : q \in 1..Header[6]}
              = Range(NamesOf(to_write.properties.varying_scalar_values))

\* Two lines with points, and in every group with two quantities the map
\* iterates against the alphabet.
C19_Witness ==
    /\ write_pc = "done" /\ WellFormed
    /\ to_write.lengths = <<2, 1>>
    /\ ItemsOf("names") = <<"y0", "x0", "v0", "x", "s", "e", "b">>

\* C20: for well-formed properties the header has 7 u64 and the bounds 6
\* floats, each body section has the number of floats the header counts
\* announce (quantities x lines, x 3 for vectors, or quantities x elements,
\* x 3 for vectors), no section that goes through the byte buffer is longer
\* than the buffer, and the buffer has the size of the largest announced
\* section.
C20_SectionsHaveAnnouncedLength ==
    (write_pc = "done" /\ WellFormed) =>
        /\ Len(Header) = 7
        /\ Header[1] = to_write.float_size
        /\ Len(ItemsOf("bounds")) = 6
        /\ Len(ItemsOf("fixed_scalar")) = Header[4] * NLines
        /\ Len(ItemsOf("fixed_vector")) = Header[5] * NLines * 3
        /\ Len(ItemsOf("varying_scalar")) = Header[6] * NElements
        /\ Len(ItemsOf("varying_vector")) = Header[7] * NElements * 3
        /\ \A q \in 1..Len(written.sections) :
              /\ written.sections[q].buffered =>
                    written.sections[q].bytes <= written.byte_buffer_size
              /\ written.sections[q].section \notin {"header", "names", "offsets"} =>
                    written.sections[q].bytes
                        = Len(written.sections[q].items) * to_write.float_size
        /\ written.byte_buffer_size \in
              {7 * U64Size, 6 * Header[1], written.sections[3].bytes,
               NLines * U64Size,
               Header[4] * NLines * Header[1], Header[5] * NLines * 3 * Header[1],
               Header[6] * NElements * Header[1], Header[7] * NElements * 3 * Header[1]}

\* The largest section is the one of the varying vectors, larger than the
\* header.
C20_Witness ==
    /\ write_pc = "done" /\ WellFormed
    /\ Header[7] = 2 /\ NElements = 4 /\ Header[1] = 8
    /\ written.byte_buffer_size = 2 * 4 * 3 * 8
    /\ PositionOf("varying_vector") = Len(written.sections)

\* The names of the datasets of a file.
DatasetNames(file) == {file.datasets[q].name : q \in 1..Len(file.datasets)}

\* C21: after a save that returned Ok, neither the trajectory file nor the
\* seed file has a dataset named r; every varying scalar series (when there
\* are elements) and every fixed scalar series has its dataset, named rho
\* for the series r and after the series otherwise.
C21_NoDatasetNamedR ==
    (write_pc = "done" /\ written.result = "Ok") =>
        /\ "r" \notin DatasetNames(written.trajectory)
        /\ "r" \notin DatasetNames(written.seed)
        /\ \A q \in 1..Len(to_write.properties.fixed_scalar_values) :
              to_write.properties.number_of_field_lines > 0 =>
                DatasetName(to_write.properties.fixed_scalar_values[q].name)
                    \in DatasetNames(written.seed)
        /\ \A q \in 1..Len(to_write.properties.varying_scalar_values) :
              SeqSum(to_write.lengths) > 0 =>
                DatasetName(to_write.properties.varying_scalar_values[q].name)
                    \in DatasetNames(written.trajectory)

\* The events of the cork tracing run that are of the given kind.
CorkEvents(kind) == {q \in 1..Len(cork_trace) : cork_trace[q].event = kind}

\* C22: once the first call of run_tracing for a range of more than one
\* snapshot has returned, the write permission of the output path has been
\* checked at offset 0, although nothing has been written.
C22_FirstInvocationChecksPermission ==
    (/\ cork_input.has_range /\ cork_input.final_offset > 0
     /\ cork_pc = "running" /\ current_offset > 0) =>
        /\ \E q \in CorkEvents("check_if_write_allowed") : cork_trace[q].offset = 0
        /\ cork_output = Before(cork_input.target_exists)

\* C26: over the invocations for the snapshots of a range, the corks are
\* initialized in the first invocation only, which leaves the state Some;
\* every later invocation advects them; the cached fields are dropped at the
\* end of each invocation; and the output is saved and moved to the target
\* path only at the final offset, once when the run finishes with the write
\* allowed and never otherwise.
C26_SeedOnceAdvectThenWriteOnce ==
    /\ \A q \in CorkEvents("initialize") : cork_trace[q].offset = 0
    /\ \A offset \in 0..(current_offset - 1) :
          /\ corks_state = "Some"
          /\ Cardinality({q \in CorkEvents(IF offset = 0 THEN "initialize" ELSE "advect") :
                             cork_trace[q].offset = offset}) = 1
    /\ \A q \in CorkEvents("initialize") \cup CorkEvents("advect") :
          q < Len(cork_trace) /\ cork_trace[q + 1] = Event(cork_trace[q].offset, "drop_all_fields")
    /\ cork_pc \in {"running", "finished"} => ~cached_fields
    /\ \A q \in CorkEvents("save") \cup CorkEvents("perform_replace") :
          ShouldWriteOutput(cork_input, cork_trace[q].offset)
    /\ Cardinality(CorkEvents("save")) =
          (IF cork_pc = "finished" /\ cork_input.write_allowed THEN 1 ELSE 0)
    /\ Cardinality(CorkEvents("perform_replace")) = Cardinality(CorkEvents("save"))
    /\ cork_output = (IF CorkEvents("perform_replace") = {}
                      THEN Before(cork_input.target_exists) ELSE "new")

\* A range of three snapshots was traced and its output replaced an
\* existing file.
C26_Witness ==
    /\ cork_input.has_range /\ cork_input.final_offset = 2
    /\ cork_input.target_exists
    /\ cork_pc = "finished" /\ cork_output = "new"
    /\ Cardinality(CorkEvents("advect")) = 2

\* C23: whichever subcommands are given, the overwrite mode set in the IO
\* context is Always with --overwrite, Never with --no-overwrite and Ask
\* otherwise.
C23_OverwriteModeFollowsFlag ==
    mode_pc = "mode_set" =>
        overwrite_mode = OverwriteModeFromRootArguments(simulate_line, 0)

\* C24: when a run with H5Part output has ended, the trajectory file and the
\* seed-site file are either both replaced by the new files or both as they
\* were, also when the run ended in moving one of the temporary files.
C24_BothFilesOrNeither ==
    (run_input.output_type = "H5Part" /\ sim_pc \in {"exited", "finished"}) =>
        (files.target = "new" <=> files.extra_target = "new")

\* C25: after any extractions the series x, y, z and x0, y0, z0 are the
\* path coordinates and start positions that the tracing left, whatever the
\* names of the extracted fields.
C25_CoordinatesNeverOverwritten ==
    extract_pc # "off" =>
        /\ \A key \in {"x", "y", "z"} :
              line_set.varying_scalar_values[key] = traced_set.varying_scalar_values[key]
        /\ \A key \in {"x0", "y0", "z0"} :
              line_set.fixed_scalar_values[key] = traced_set.fixed_scalar_values[key]

\* The last extraction, the map it inserts into and the key it inserts.
LastExtract == last_extract[Len(last_extract)]
MapOfLastExtract ==
    IF LastExtract.operation = "extract_fixed_scalars" THEN "fixed_scalar_values"
    ELSE IF LastExtract.operation = "extract_fixed_vectors" THEN "fixed_vector_values"
    ELSE IF LastExtract.operation = "extract_varying_vectors" THEN "varying_vector_values"
    ELSE "varying_scalar_values"
KeyOfLastExtract ==
    IF LastExtract.operation \in {"extract_fixed_scalars", "extract_fixed_vectors"}
    THEN LastExtract.name \o "0" ELSE LastExtract.name

MapNames ==
    {"fixed_scalar_values", "fixed_vector_values", "varying_scalar_values",
     "varying_vector_values"}

\* The invariants of the data model: every series has one entry for each
\* field line, the varying series of a line have the same length, and the
\* coordinate series are there.
DataModelInvariants(p) ==
    /\ \A map \in MapNames : \A key \in DOMAIN p[map] :
          Len(p[map][key]) = p.number_of_field_lines
    /\ \A map \in {"varying_scalar_values", "varying_vector_values"} :
          \A key \in DOMAIN p[map] : \A i \in 1..p.number_of_field_lines :
              Len(p[map][key][i]) = Len(p.varying_scalar_values["x"][i])
    /\ {"x", "y", "z"} \subseteq DOMAIN p.varying_scalar_values
    /\ {"x0", "y0", "z0"} \subseteq DOMAIN p.fixed_scalar_values

\* C27: an extraction that returned has put one series under its key (the
\* field name, with "0" appended for fixed values) into its map, with one
\* entry for each field line and, for varying values, as many values for a
\* line as the x series has; the number of field lines, the other maps and
\* the series under the other keys are as before, and the invariants of the
\* data model hold as they did before.
C27_ExtractInsertsOneConformingSeries ==
    (extract_pc = "extracting" /\ last_extract # <<>>) =>
        /\ DataModelInvariants(before_extract)
        /\ line_set.number_of_field_lines = before_extract.number_of_field_lines
        /\ \A map \in MapNames \ {MapOfLastExtract} :
              DOMAIN line_set[map] = DOMAIN before_extract[map]
              /\ \A key \in DOMAIN line_set[map] :
                    line_set[map][key] = before_extract[map][key]
        /\ DOMAIN line_set[MapOfLastExtract] =
              (DOMAIN before_extract[MapOfLastExtract]) \cup {KeyOfLastExtract}
        /\ \A key \in (DOMAIN before_extract[MapOfLastExtract]) \ {KeyOfLastExtract} :
              line_set[MapOfLastExtract][key] = before_extract[MapOfLastExtract][key]
        /\ Len(line_set[MapOfLastExtract][KeyOfLastExtract]) =
              line_set.number_of_field_lines
        /\ MapOfLastExtract \in {"varying_scalar_values", "varying_vector_values"} =>
              \A i \in 1..line_set.number_of_field_lines :
                  Len(line_set[MapOfLastExtract][KeyOfLastExtract][i]) =
                      Len(before_extract.varying_scalar_values["x"][i])
        /\ DataModelInvariants(line_set)

\* A varying series was extracted for two lines of different lengths, after
\* an extraction of fixed values.
C27_Witness ==
    /\ extract_pc = "extracting"
    /\ Len(last_extract) = 2
    /\ last_extract[1].operation = "extract_fixed_vectors"
    /\ last_extract[2] = [operation |-> "extract_varying_vector_magnitudes", name |-> "b"]
    /\ line_set.number_of_field_lines = 2
    /\ Len(line_set.varying_scalar_values["b"][1]) # Len(line_set.varying_scalar_values["b"][2])

\* An extraction replaced the series of a key that was there (a varying
\* scalar named as the magnitudes before it).
C27_WitnessReplaced ==
    /\ extract_pc = "extracting"
    /\ Len(last_extract) = 2
    /\ last_extract[1] = [operation |-> "extract_varying_vector_magnitudes", name |-> "r"]
    /\ last_extract[2] = [operation |-> "extract_varying_scalars", name |-> "r"]
    /\ line_set.number_of_field_lines > 0

\* An extraction panicked on a position outside the grid.
C27_WitnessPanicked == extract_pc = "panicked"

\* The text of the Names block in the output.
WrittenNamesText == written.sections[3].text

\* C28: the Names block has one newline for each quantity that the header
\* announces, also when it announces none.
C28_OneNewlinePerQuantity ==
    write_pc = "done" =>
        Cardinality({q \in 1..Len(WrittenNamesText) : WrittenNamesText[q] = "newline"})
            = Header[4] + Header[5] + Header[6] + Header[7]

\* The step attempt, or the dense output, has been evaluated.
Attempted == ftr_pc = "done" /\ ftr_input.operation = "attempt_step"
Interpolated == ftr_pc = "done" /\ ftr_input.operation = "interpolate_dense_position"

\* h d in exact arithmetic, and |a - b| <= bound.
ExactDisplacement == VScale(ftr_input.direction, ftr_input.step_size)
Within(a, b, bound) == RLeq(RAbs(RSum(a, RNeg(b))), bound)

\* The rounding bound n u |h d_c| of component c.
RoundingBound(n, c) == RMul(RMul(R(n), UnitRoundoff), RAbs(ExactDisplacement[c]))

\* C29 as stated: in a field that is d everywhere the displacement of the
\* attempt is exactly h d, the error deltas are the zero vector, the error
\* norm is 0 and the attempt is accepted.
C29_ConstantFieldExact ==
    Attempted =>
        /\ ftr_result.step_displacement =
              FVScale(ftr_input.direction, ftr_input.step_size)
        /\ ftr_result.error_deltas = VZero
        /\ ftr_result.error_sq = R(0)
        /\ ftr_result.accepted

\* C29: in a field that is d everywhere, the weights 2/9, 1/3, 4/9 give the
\* displacement h d and the coefficients -5/72, 1/12, 1/9, -1/8 give zero
\* error deltas in exact arithmetic; in ftr each component of the
\* displacement is within 8 u |h d_c| of h d_c and each error delta within
\* 4 u |h d_c| of 0, u the unit roundoff, and the attempt is accepted when
\* the absolute tolerance is at least that bound for every component.
C29_ConstantFieldUpToRounding ==
    Attempted =>
        /\ VScale(VAdd(VAdd(VScale(ftr_input.direction, A41),
                            VScale(ftr_input.direction, A42)),
                       VScale(ftr_input.direction, A43)),
                  ftr_input.step_size) = ExactDisplacement
        /\ VScale(VAdd(VAdd(VAdd(VScale(ftr_input.direction, E1),
                                 VScale(ftr_input.direction, E2)),
                            VScale(ftr_input.direction, E3)),
                       VScale(ftr_input.direction, E4)),
                  ftr_input.step_size) = VZero
        /\ \A c \in Dims :
              /\ Within(ftr_result.step_displacement[c], ExactDisplacement[c],
                        RoundingBound(8, c))
              /\ Within(ftr_result.error_deltas[c], R(0), RoundingBound(4, c))
        /\ (\A c \in Dims : RLeq(RoundingBound(4, c), ftr_input.absolute_tolerance))
              => ftr_result.accepted

\* An attempt whose error deltas are not zero, by rounding, was accepted.
C29_Witness ==
    /\ Attempted
    /\ ftr_result.error_deltas # VZero
    /\ ftr_result.step_displacement # ExactDisplacement
    /\ \A c \in Dims : RLeq(RoundingBound(4, c), ftr_input.absolute_tolerance)
    /\ ftr_result.accepted

\* An attempt was rejected for its rounding error alone.
C29_WitnessRejected == Attempted /\ ~ftr_result.accepted

\* The position, wrapped by the grid when the previous step wrapped.
WrappedIfStepWrapped(position) ==
    IF ftr_input.previous_step_wrapped
    THEN [panicked |-> ~WrapPoint(position).some, position |-> WrapPoint(position).point]
    ELSE [panicked |-> FALSE, position |-> position]

C30_WitnessRounded ==
    /\ Interpolated
    /\ ftr_input.ends.straight
    /\ ~ftr_input.previous_step_wrapped
    /\ ftr_input.fraction # R(1)
    /\ ftr_result.position #
          FVAdd(ftr_input.previous_position,
                FVScale(ftr_input.previous_step_displacement, ftr_input.fraction))

====
